---- MODULE Spec2Model ----
(***************************************************************************)
(* ProofCheck: the repository-analysis pipeline.                           *)
(*                                                                         *)
(*   languageDetector.js  detectLanguages   (src/unnamed/part_003)         *)
(*   projectAnalyzer.js   analyzeProject    (src/src/analyzers/            *)
(*                                           javascriptAnalyzer.js 374-)   *)
(*   analyzers/*.js       analyzePython, analyzeJavaScript, analyzeCpp     *)
(*   router.js            runAnalyzers                                     *)
(*   ingestion.js         analyzeRepo, compileReport (src/unnamed/part_002)*)
(*                                                                         *)
(* Numbers are integers.  A JavaScript double that is not an integer is    *)
(* kept as an exact fraction n/d and Math.round is computed on the         *)
(* fraction; complexity.average is kept in tenths (averageX10).            *)
(***************************************************************************)
EXTENDS Integers, Sequences, FiniteSets, TLC

VARIABLES
    pc,                 \* position of the running call
    repo,               \* the snapshot directory: [files, root]
    tempDir,            \* clonePath exists on disk
    languageStats,      \* detectLanguages' result
    projectMetrics,     \* analyzeProject's result
    languagesToAnalyze, \* runAnalyzers: the selected [lang, data] entries
    cursor,             \* runAnalyzers: index of the next selected language
    totalWeight,        \* runAnalyzers: local
    weightedScore,      \* runAnalyzers: local
    results,            \* runAnalyzers: the object it returns
    calls,              \* analyzer invocations so far, in order
    report,             \* compileReport's result
    outcome,            \* how the running call ended
    scored              \* the last scoring function applied, with its result

vars == <<pc, repo, tempDir, languageStats, projectMetrics, languagesToAnalyze,
          cursor, totalWeight, weightedScore, results, calls, report, outcome,
          scored>>

Null == [null |-> TRUE]

(***************************************************************************)
(* JavaScript arithmetic.                                                  *)
(***************************************************************************)
Min(a, b) == IF a <= b THEN a ELSE b

Max(a, b) == IF a >= b THEN a ELSE b

\* Math.round(n / d) for d > 0: the nearest integer, a tie going up.
MathRound(n, d) == (2 * n + d) \div (2 * d)

RECURSIVE SumSeq(_)
SumSeq(s) == IF s = <<>> THEN 0 ELSE Head(s) + SumSeq(Tail(s))

RECURSIVE MaxSeq(_)
MaxSeq(s) == IF s = <<>> THEN 0 ELSE Max(Head(s), MaxSeq(Tail(s)))

\* Array.prototype.slice(0, n)
Slice(s, n) == SubSeq(s, 1, Min(n, Len(s)))

Count(s, Test(_)) == Cardinality({i \in 1..Len(s) : Test(s[i])})

Range(s) == {s[i] : i \in 1..Len(s)}

(***************************************************************************)
(* languageDetector.js: detectLanguages.                                   *)
(* A file of the snapshot is [ext, lines, bytes, readable]: the extension  *)
(* of its path, the number of '\n'-separated segments of its content, its  *)
(* size, and whether readFile and stat succeed.  repo.files lists the      *)
(* files in the order walkDirectory reaches them.                          *)
(***************************************************************************)
Undefined == "undefined"

ExtensionTable ==
    { <<".py", "Python">>, <<".pyw", "Python">>, <<".js", "JavaScript">>,
      <<".jsx", "JavaScript">>, <<".ts", "TypeScript">>, <<".tsx", "TypeScript">>,
      <<".cpp", "C++">>, <<".cc", "C++">>, <<".cxx", "C++">>, <<".c", "C">>,
      <<".h", "C/C++ Header">>, <<".hpp", "C++ Header">>, <<".java", "Java">>,
      <<".go", "Go">>, <<".rs", "Rust">>, <<".rb", "Ruby">>, <<".php", "PHP">>,
      <<".cs", "C#">>, <<".swift", "Swift">>, <<".kt", "Kotlin">>,
      <<".scala", "Scala">>, <<".r", "R">>, <<".R", "R">>,
      <<".m", "MATLAB/Objective-C">>, <<".sql", "SQL">>, <<".sh", "Shell">>,
      <<".bash", "Shell">>, <<".zsh", "Shell">>, <<".ps1", "PowerShell">>,
      <<".html", "HTML">>, <<".css", "CSS">>, <<".scss", "SCSS">>,
      <<".sass", "Sass">>, <<".less", "Less">>, <<".json", "JSON">>,
      <<".xml", "XML">>, <<".yaml", "YAML">>, <<".yml", "YAML">>,
      <<".md", "Markdown">>, <<".vue", "Vue">>, <<".svelte", "Svelte">> }

\* EXTENSION_MAP[ext]
EXTENSION_MAP(ext) ==
    IF \E p \in ExtensionTable : p[1] = ext
    THEN (CHOOSE p \in ExtensionTable : p[1] = ext)[2]
    ELSE Undefined

\* String.prototype.toLowerCase on the extensions the model uses
ToLowerCase(ext) ==
    CASE ext = ".PY" -> ".py"
      [] ext = ".JS" -> ".js"
      [] ext = ".R" -> ".r"
      [] OTHER -> ext

HasKey(obj, key) == \E i \in 1..Len(obj) : obj[i].lang = key

KeyIndex(obj, key) == CHOOSE i \in 1..Len(obj) : obj[i].lang = key

\* the try/catch of the callback without its catch branch: a file whose read
\* fails is not counted
CountFileReadOnly(stats, k, file) ==
    IF file.readable
    THEN [stats EXCEPT ![k].files = @ + 1,
                       ![k].lines = @ + file.lines,
                       ![k].bytes = @ + file.bytes]
    ELSE stats

\* try { readFile, stat; files++, lines += ..., bytes += ... }
\* catch { files++ }
CountFile(stats, k, file) ==
    IF file.readable
    THEN [stats EXCEPT ![k].files = @ + 1,
                       ![k].lines = @ + file.lines,
                       ![k].bytes = @ + file.bytes]
    ELSE [stats EXCEPT ![k].files = @ + 1]

\* the callback detectLanguages hands to walkDirectory, for one file
DetectCallback(stats, file) ==
    LET language == EXTENSION_MAP(ToLowerCase(file.ext))
        created == IF HasKey(stats, language) THEN stats
                   ELSE Append(stats, [lang |-> language, files |-> 0,
                                       lines |-> 0, bytes |-> 0])
    IN  IF language = Undefined THEN stats
        ELSE CountFile(created, KeyIndex(created, language), file)

\* walkDirectory(repoPath, callback) over the files in walk order
RECURSIVE WalkDirectory(_, _)
WalkDirectory(stats, files) ==
    IF files = <<>> THEN stats
    ELSE WalkDirectory(DetectCallback(stats, Head(files)), Tail(files))

\* (lines / totalLines) * 100 in doubles lands just below k + 0.5 for these
\* ratios, where the exact value is k + 0.5 (all such ratios for
\* totalLines < 400).
DoubleTieFallsShort(lines, totalLines) ==
    \/ 40 * lines = 23 * totalLines
    \/ 200 * lines = 29 * totalLines
    \/ 200 * lines = 57 * totalLines
    \/ 200 * lines = 113 * totalLines

\* totalLines > 0 ? Math.round((data.lines / totalLines) * 100) : 0
Percentage(lines, totalLines) ==
    IF totalLines > 0
    THEN IF DoubleTieFallsShort(lines, totalLines)
         THEN MathRound(100 * lines, totalLines) - 1
         ELSE MathRound(100 * lines, totalLines)
    ELSE 0

\* the primary language: the loop keeps the first entry whose lines exceed
\* every earlier entry's, starting from maxLines = 0
RECURSIVE PrimaryOf(_, _, _)
PrimaryOf(stats, maxLines, primary) ==
    IF stats = <<>> THEN primary
    ELSE IF Head(stats).lines > maxLines
    THEN PrimaryOf(Tail(stats), Head(stats).lines, Head(stats).lang)
    ELSE PrimaryOf(Tail(stats), maxLines, primary)

\* where a stable descending sort by lines puts e among the sorted entries
InsertByLines(sorted, e) ==
    LET k == Cardinality({i \in 1..Len(sorted) : sorted[i].lines >= e.lines})
    IN  SubSeq(sorted, 1, k) \o <<e>> \o SubSeq(sorted, k + 1, Len(sorted))

\* Object.entries(breakdown).sort(([,a], [,b]) => b.lines - a.lines)
RECURSIVE SortByLines(_)
SortByLines(s) ==
    IF s = <<>> THEN <<>>
    ELSE InsertByLines(SortByLines(SubSeq(s, 1, Len(s) - 1)), s[Len(s)])

detectLanguages(files) ==
    LET stats == WalkDirectory(<<>>, files)
        totalLines == SumSeq([i \in 1..Len(stats) |-> stats[i].lines])
        totalFiles == SumSeq([i \in 1..Len(stats) |-> stats[i].files])
        breakdown == [i \in 1..Len(stats) |->
                        [lang |-> stats[i].lang, files |-> stats[i].files,
                         lines |-> stats[i].lines, bytes |-> stats[i].bytes,
                         percentage |-> Percentage(stats[i].lines, totalLines)]]
    IN  [primary |-> PrimaryOf(stats, 0, "null"),
         breakdown |-> SortByLines(breakdown),
         totalFiles |-> totalFiles,
         totalLines |-> totalLines]

(***************************************************************************)
(* The analyzers.  An AnalysisResult keeps the fields of the JavaScript    *)
(* object that a score, the router or the report reads.  issues is the     *)
(* sequence of the issues' severities.  What an analyzer reads from the     *)
(* file system and from its external tools is its argument:                 *)
(*   closed     the complexities of the functions the scan closed, in order *)
(*   functions  the function starts the scan recognized                     *)
(***************************************************************************)
NoDistribution == [low |-> 0, medium |-> 0, high |-> 0, veryHigh |-> 0]

\* the four buckets of cppAnalyzer.js categorizeComplexity
Bucket(complexity) ==
    IF complexity <= 5 THEN "low"
    ELSE IF complexity <= 10 THEN "medium"
    ELSE IF complexity <= 20 THEN "high"
    ELSE "veryHigh"

\* the four buckets of javascriptAnalyzer.js categorizeComplexity
BucketJS(complexity) ==
    IF complexity <= 5 THEN "low"
    ELSE IF complexity <= 10 THEN "medium"
    ELSE IF complexity <= 20 THEN "high"
    ELSE "veryHigh"

\* the buckets with the upper edge of high left out of it
BucketPythonBelow20(complexity) ==
    IF complexity <= 5 THEN "low"
    ELSE IF complexity <= 10 THEN "medium"
    ELSE IF complexity < 20 THEN "high"
    ELSE "veryHigh"

\* the four buckets of the loop of pythonAnalyzer.js analyzeComplexity
BucketPython(complexity) ==
    IF complexity <= 5 THEN "low"
    ELSE IF complexity <= 10 THEN "medium"
    ELSE IF complexity <= 20 THEN "high"
    ELSE "veryHigh"

\* categorizeComplexity without its last line: max stays as it was
categorizeComplexityKeepsMax(complexity, cx) ==
    [cx EXCEPT !.distribution[Bucket(complexity)] = @ + 1]

\* cppAnalyzer.js categorizeComplexity(complexity, result), on result.complexity
categorizeComplexity(complexity, cx) ==
    [cx EXCEPT !.distribution[Bucket(complexity)] = @ + 1,
               !.max = Max(@, complexity)]

\* javascriptAnalyzer.js categorizeComplexity(complexity, result)
categorizeComplexityJS(complexity, cx) ==
    [cx EXCEPT !.distribution[BucketJS(complexity)] = @ + 1,
               !.max = Max(@, complexity)]

RECURSIVE CategorizeAll(_, _)
CategorizeAll(cx, closed) ==
    IF closed = <<>> THEN cx
    ELSE CategorizeAll(categorizeComplexity(Head(closed), cx), Tail(closed))

RECURSIVE CategorizeAllJS(_, _)
CategorizeAllJS(cx, closed) ==
    IF closed = <<>> THEN cx
    ELSE CategorizeAllJS(categorizeComplexityJS(Head(closed), cx), Tail(closed))

SeverityCount(issues, severity) == Count(issues, LAMBDA s : s = severity)

(***************************************************************************)
(* pythonAnalyzer.js                                                       *)
(*   radon  = [kind, functions, broken]: kind "error" (the command fails   *)
(*            or its output is not JSON), "blank" (empty output) or "json"; *)
(*            functions are the complexities of the entries the loop reads; *)
(*            broken: the entry after them makes the loop throw             *)
(*   pylint = [rejected, stdout, counts]: stdout is "", "[]", "garbage" or  *)
(*            "json" (a list with counts[type] issues of each type)         *)
(***************************************************************************)
\* the loop of analyzeComplexity over the functions radon reports
RECURSIVE RadonLoop(_, _)
RadonLoop(result, functions) ==
    IF functions = <<>> THEN result
    ELSE LET c == Head(functions)
             counted == [result EXCEPT !.complexity.distribution[BucketPython(c)] = @ + 1]
             flagged == IF c > 15
                        THEN [counted EXCEPT !.issues =
                                Append(@, IF c > 25 THEN "high" ELSE "medium")]
                        ELSE counted
         IN  RadonLoop(flagged, Tail(functions))

\* analyzeComplexity without its try/catch: a failure of the command or of
\* JSON.parse leaves the function as an exception
analyzeComplexityNoCatch(radon, result) ==
    IF radon.kind = "error"
    THEN [thrown |-> TRUE]
    ELSE IF radon.kind = "blank" THEN result
    ELSE LET looped == RadonLoop(result, radon.functions)
             totalComplexity == SumSeq(radon.functions)
             functionCount == Len(radon.functions)
         IN  IF radon.broken
             THEN [looped EXCEPT !.complexity.error = TRUE]
             ELSE [looped EXCEPT
                     !.complexity.averageX10 =
                         IF functionCount > 0
                         THEN MathRound(totalComplexity * 10, functionCount)
                         ELSE 0,
                     !.complexity.max = MaxSeq(radon.functions),
                     !.metrics.functions = functionCount]

\* analyzeComplexity(repoPath, result): one run of radon inside try/catch
analyzeComplexity(radon, result) ==
    IF radon.kind = "error"
    THEN [result EXCEPT !.complexity.error = TRUE]
    ELSE IF radon.kind = "blank" THEN result
    ELSE LET looped == RadonLoop(result, radon.functions)
             totalComplexity == SumSeq(radon.functions)
             functionCount == Len(radon.functions)
         IN  IF radon.broken
             THEN [looped EXCEPT !.complexity.error = TRUE]
             ELSE [looped EXCEPT
                     !.complexity.averageX10 =
                         IF functionCount > 0
                         THEN MathRound(totalComplexity * 10, functionCount)
                         ELSE 0,
                     !.complexity.max = MaxSeq(radon.functions),
                     !.metrics.functions = functionCount]

\* styleScore = 100 - 5 error - 2 warning - 0.5 convention - 1 refactor,
\* then Math.max(0, Math.min(100, Math.round(styleScore)))
PylintScore(counts) ==
    LET twice == 200 - 10 * counts.error - 4 * counts.warning
                     - counts.convention - 2 * counts.refactor
    IN  Max(0, Min(100, MathRound(twice, 2)))

analyzeStyle(pylint, result) ==
    LET stdout == IF pylint.rejected /\ pylint.stdout = "" THEN "[]"
                  ELSE pylint.stdout
    IN  IF stdout # "" /\ stdout # "[]"
        THEN IF stdout = "json"
             THEN [result EXCEPT
                     !.style.score = PylintScore(pylint.counts),
                     !.style.issues =
                         Min(10, pylint.counts.error + pylint.counts.warning)]
             ELSE [result EXCEPT !.style.score = 70]
        ELSE [result EXCEPT !.style.score = 85]

analyzeMetrics(scan, result) ==
    [result EXCEPT !.metrics.codeLines = scan.codeLines,
                   !.metrics.commentLines = scan.commentLines,
                   !.metrics.docstrings = scan.docstrings,
                   !.metrics.classes = scan.classes]

\* the points of calculatePythonScore with the class bonus left uncapped
PositivePointsPythonUncapped(result) ==
    LET average == result.complexity.averageX10
        complexityPoints ==
            IF average <= 50 THEN 30
            ELSE IF average <= 100 THEN 25
            ELSE IF average <= 150 THEN 18
            ELSE IF average <= 200 THEN 10
            ELSE 5
        stylePoints == MathRound(result.style.score * 3, 10)
        functions == result.metrics.functions
        docstrings == IF functions > 0 THEN result.metrics.docstrings ELSE 0
        docPoints ==
            IF functions > 0 /\ 10 * docstrings >= 8 * functions THEN 20
            ELSE IF functions > 0 /\ 10 * docstrings >= 5 * functions THEN 15
            ELSE IF functions > 0 /\ 10 * docstrings >= 3 * functions THEN 10
            ELSE IF docstrings > 0 THEN 5
            ELSE 0
        code == result.metrics.codeLines
        comments == IF code > 0 THEN result.metrics.commentLines ELSE 0
        commentPoints ==
            IF code > 0 /\ 10 * comments >= code /\ 10 * comments <= 3 * code
            THEN 10
            ELSE IF comments > 0 THEN 5
            ELSE 0
        classPoints ==
            IF result.metrics.classes > 0
            THEN result.metrics.classes * 2
            ELSE 0
    IN  complexityPoints + stylePoints + docPoints + commentPoints + classPoints

\* the points calculatePythonScore adds up: complexity (30), style (30),
\* documentation (20), comments (10), classes (10)
PositivePointsPython(result) ==
    LET average == result.complexity.averageX10
        complexityPoints ==
            IF average <= 50 THEN 30
            ELSE IF average <= 100 THEN 25
            ELSE IF average <= 150 THEN 18
            ELSE IF average <= 200 THEN 10
            ELSE 5
        stylePoints == MathRound(result.style.score * 3, 10)
        functions == result.metrics.functions
        docstrings == IF functions > 0 THEN result.metrics.docstrings ELSE 0
        docPoints ==
            IF functions > 0 /\ 10 * docstrings >= 8 * functions THEN 20
            ELSE IF functions > 0 /\ 10 * docstrings >= 5 * functions THEN 15
            ELSE IF functions > 0 /\ 10 * docstrings >= 3 * functions THEN 10
            ELSE IF docstrings > 0 THEN 5
            ELSE 0
        code == result.metrics.codeLines
        comments == IF code > 0 THEN result.metrics.commentLines ELSE 0
        commentPoints ==
            IF code > 0 /\ 10 * comments >= code /\ 10 * comments <= 3 * code
            THEN 10
            ELSE IF comments > 0 THEN 5
            ELSE 0
        classPoints ==
            IF result.metrics.classes > 0
            THEN Min(10, result.metrics.classes * 2)
            ELSE 0
    IN  complexityPoints + stylePoints + docPoints + commentPoints + classPoints

\* return Math.min(100, Math.max(0, score))
calculatePythonScore(result) == Min(100, Max(0, PositivePointsPython(result)))

generateHighlightsPython(result) ==
    (IF result.complexity.averageX10 <= 50
     THEN <<"Low code complexity - easy to maintain">> ELSE <<>>)
    \o (IF result.style.score >= 80
        THEN <<"Follows Python style conventions">> ELSE <<>>)
    \o (IF /\ result.metrics.docstrings > 0
           /\ result.metrics.functions > 0
           /\ 2 * result.metrics.docstrings >= result.metrics.functions
        THEN <<"Good documentation coverage">> ELSE <<>>)
    \o (IF result.metrics.classes > 0
        THEN <<"Uses object-oriented design">> ELSE <<>>)
    \o (IF result.issues = <<>>
        THEN <<"No major code issues detected">> ELSE <<>>)

PythonResult ==
    [score |-> 0, filesAnalyzed |-> 0,
     complexity |-> [averageX10 |-> 0, max |-> 0,
                     distribution |-> NoDistribution, error |-> FALSE],
     style |-> [score |-> 0, issues |-> 0],
     metrics |-> [codeLines |-> 0, commentLines |-> 0, docstrings |-> 0,
                  functions |-> 0, classes |-> 0],
     issues |-> <<>>, highlights |-> <<>>, message |-> FALSE]

\* in = [pythonFiles, radon, pylint, scan]
analyzePython(in) ==
    IF in.pythonFiles = 0
    THEN [PythonResult EXCEPT !.score = 0, !.message = TRUE]
    ELSE LET counted == [PythonResult EXCEPT !.filesAnalyzed = in.pythonFiles]
             measured == analyzeMetrics(in.scan,
                            analyzeStyle(in.pylint,
                                analyzeComplexity(in.radon, counted)))
             scoredResult == [measured EXCEPT !.score = calculatePythonScore(measured)]
         IN  [scoredResult EXCEPT !.highlights = generateHighlightsPython(scoredResult)]

(***************************************************************************)
(* javascriptAnalyzer.js                                                   *)
(*   in = [jsFiles, config, scan]: the number of .js/.jsx/.ts/.tsx files    *)
(*   the walk finds, what checkProjectConfig reads from the root directory  *)
(*   and package.json, and what analyzeFile accumulates over the files      *)
(***************************************************************************)
JSResult ==
    [score |-> 0, filesAnalyzed |-> 0,
     complexity |-> [averageX10 |-> 0, max |-> 0, distribution |-> NoDistribution],
     style |-> [score |-> 0, hasLinter |-> FALSE, hasFormatter |-> FALSE],
     metrics |-> [codeLines |-> 0, commentLines |-> 0, functions |-> 0,
                  arrowFunctions |-> 0, classes |-> 0],
     patterns |-> [usesModules |-> FALSE, usesAsync |-> FALSE,
                   usesClasses |-> FALSE, usesTypeScript |-> FALSE,
                   framework |-> "null"],
     issues |-> <<>>, highlights |-> <<>>, message |-> FALSE]

checkProjectConfig(config, result) ==
    [result EXCEPT !.style.hasLinter = config.hasLinter,
                   !.style.hasFormatter = config.hasFormatter,
                   !.patterns.usesTypeScript = config.usesTypeScript,
                   !.patterns.framework = config.framework]

\* the loop of analyzeFile over jsFiles, from what the files hold
analyzeFilesJS(scan, result) ==
    [result EXCEPT
        !.metrics.codeLines = scan.codeLines,
        !.metrics.commentLines = scan.commentLines,
        !.metrics.functions = scan.functions,
        !.metrics.arrowFunctions = scan.arrowFunctions,
        !.metrics.classes = scan.classes,
        !.patterns.usesModules = scan.usesModules,
        !.patterns.usesAsync = scan.usesAsync,
        !.patterns.usesClasses = scan.classes > 0,
        !.patterns.usesTypeScript = @ \/ scan.tsFiles,
        !.complexity = CategorizeAllJS(@, scan.closed),
        !.issues = scan.issues]

\* Math.round((low * 2 + medium * 7 + high * 15 + veryHigh * 25) / totalFunctions)
AverageJS(result) ==
    LET totalFunctions == result.metrics.functions + result.metrics.arrowFunctions
        d == result.complexity.distribution
    IN  IF totalFunctions > 0
        THEN 10 * MathRound(d.low * 2 + d.medium * 7 + d.high * 15 + d.veryHigh * 25,
                            totalFunctions)
        ELSE result.complexity.averageX10

\* the points calculateJSScore adds: complexity (25), linter and formatter
\* (15), modern patterns (20), organization (20), comments (10), framework (10)
PositivePointsJS(result) ==
    LET average == result.complexity.averageX10
        complexityPoints ==
            IF average <= 50 THEN 25
            ELSE IF average <= 100 THEN 20
            ELSE IF average <= 150 THEN 12
            ELSE 5
        linterPoints == (IF result.style.hasLinter THEN 10 ELSE 0)
                        + (IF result.style.hasFormatter THEN 5 ELSE 0)
        modernPoints == (IF result.patterns.usesModules THEN 5 ELSE 0)
                        + (IF result.patterns.usesAsync THEN 5 ELSE 0)
                        + (IF result.patterns.usesTypeScript THEN 10 ELSE 0)
        totalFunctions == result.metrics.functions + result.metrics.arrowFunctions
        organizationPoints ==
            IF totalFunctions > 0
            THEN (IF totalFunctions <= 20 * result.filesAnalyzed THEN 10 ELSE 0)
                 + (IF result.metrics.classes > 0 THEN 10 ELSE 0)
            ELSE 0
        code == result.metrics.codeLines
        comments == IF code > 0 THEN result.metrics.commentLines ELSE 0
        commentPoints ==
            IF code > 0 /\ 20 * comments >= code /\ 4 * comments <= code THEN 10
            ELSE IF comments > 0 THEN 5
            ELSE 0
        frameworkPoints == IF result.patterns.framework # "null" THEN 10 ELSE 0
    IN  complexityPoints + linterPoints + modernPoints + organizationPoints
        + commentPoints + frameworkPoints

\* score -= Math.min(10, highIssues * 3 + mediumIssues)
PenaltyJS(result) ==
    Min(10, SeverityCount(result.issues, "high") * 3
            + SeverityCount(result.issues, "medium"))

\* return Math.min(100, Math.max(0, score))
calculateJSScore(result) ==
    Min(100, Max(0, PositivePointsJS(result) - PenaltyJS(result)))

generateHighlightsJS(result) ==
    (IF result.patterns.usesTypeScript
     THEN <<"Uses TypeScript for type safety">> ELSE <<>>)
    \o (IF result.patterns.framework # "null"
        THEN <<"Built with " \o result.patterns.framework>> ELSE <<>>)
    \o (IF result.style.hasLinter /\ result.style.hasFormatter
        THEN <<"Has linting and formatting configured">> ELSE <<>>)
    \o (IF result.patterns.usesAsync
        THEN <<"Uses modern async/await patterns">> ELSE <<>>)
    \o (IF result.complexity.averageX10 <= 50
        THEN <<"Low code complexity">> ELSE <<>>)
    \o (IF result.patterns.usesModules THEN <<"Uses ES modules">> ELSE <<>>)

analyzeJavaScript(in) ==
    IF in.jsFiles = 0
    THEN [JSResult EXCEPT !.score = 0, !.message = TRUE]
    ELSE LET counted == [JSResult EXCEPT !.filesAnalyzed = in.jsFiles]
             scanned == analyzeFilesJS(in.scan, checkProjectConfig(in.config, counted))
             averaged == [scanned EXCEPT !.complexity.averageX10 = AverageJS(scanned)]
             scoredResult == [averaged EXCEPT !.score = calculateJSScore(averaged)]
         IN  [scoredResult EXCEPT !.highlights = generateHighlightsJS(scoredResult)]

(***************************************************************************)
(* cppAnalyzer.js                                                          *)
(*   in = [cppFiles, headerFiles, buildSystem, scan]                        *)
(***************************************************************************)
CppResult ==
    [score |-> 0, filesAnalyzed |-> 0,
     complexity |-> [averageX10 |-> 0, max |-> 0, distribution |-> NoDistribution],
     style |-> [score |-> 0, hasHeaderGuards |-> TRUE],
     metrics |-> [codeLines |-> 0, commentLines |-> 0, functions |-> 0,
                  classes |-> 0],
     patterns |-> [usesSmartPointers |-> FALSE, usesSTL |-> FALSE,
                   usesCpp11Plus |-> FALSE, hasBuildSystem |-> FALSE,
                   buildSystem |-> "null"],
     memoryManagement |-> [rawPointers |-> 0, smartPointers |-> 0,
                           newDelete |-> 0, score |-> 0],
     issues |-> <<>>, highlights |-> <<>>, message |-> FALSE]

checkBuildSystem(buildSystem, result) ==
    IF buildSystem = "null" THEN result
    ELSE [result EXCEPT !.patterns.hasBuildSystem = TRUE,
                        !.patterns.buildSystem = buildSystem]

\* the two loops of analyzeFile over cppFiles and headerFiles
analyzeFilesCpp(scan, result) ==
    [result EXCEPT
        !.metrics.codeLines = scan.codeLines,
        !.metrics.commentLines = scan.commentLines,
        !.metrics.functions = scan.functions,
        !.metrics.classes = scan.classes,
        !.style.hasHeaderGuards = scan.hasHeaderGuards,
        !.patterns.usesSTL = scan.usesSTL,
        !.patterns.usesSmartPointers = scan.usesSmartPointers,
        !.patterns.usesCpp11Plus = scan.usesCpp11Plus,
        !.memoryManagement.rawPointers = scan.rawPointers,
        !.memoryManagement.smartPointers = scan.smartPointers,
        !.memoryManagement.newDelete = scan.newDelete,
        !.complexity = CategorizeAll(@, scan.closed),
        !.issues = scan.issues]

\* the C/C++ average with a weight of 2 for the low bucket
AverageCppLowAsTwo(result) ==
    LET d == result.complexity.distribution
        totalComplexity == d.low * 2 + d.medium * 7 + d.high * 15 + d.veryHigh * 25
    IN  IF result.metrics.functions > 0
        THEN 10 * MathRound(totalComplexity, result.metrics.functions)
        ELSE result.complexity.averageX10

\* Math.round(totalComplexity / result.metrics.functions)
AverageCpp(result) ==
    LET d == result.complexity.distribution
        totalComplexity == d.low * 3 + d.medium * 7 + d.high * 15 + d.veryHigh * 25
    IN  IF result.metrics.functions > 0
        THEN 10 * MathRound(totalComplexity, result.metrics.functions)
        ELSE result.complexity.averageX10

calculateMemoryScore(result) ==
    LET m == result.memoryManagement
        total == m.rawPointers + m.smartPointers + m.newDelete
        \* Math.round(50 + (smartRatio * 40) - (newDeleteRatio * 30))
        rounded == MathRound(50 * total + 40 * m.smartPointers - 30 * m.newDelete,
                             total)
        withScore == [result EXCEPT
                        !.memoryManagement.score = Max(0, Min(100, rounded))]
    IN  IF total = 0
        THEN [result EXCEPT !.memoryManagement.score = 80]
        ELSE IF m.newDelete > 5 /\ ~result.patterns.usesSmartPointers
        THEN [withScore EXCEPT !.issues = Append(@, "medium")]
        ELSE withScore

\* the points calculateCppScore adds: complexity (20), build system (15),
\* modern C++ (20), memory management (15), organization (15), comments (10)
PositivePointsCpp(result) ==
    LET average == result.complexity.averageX10
        complexityPoints ==
            IF average <= 50 THEN 20
            ELSE IF average <= 100 THEN 15
            ELSE IF average <= 150 THEN 10
            ELSE 5
        buildPoints == IF result.patterns.hasBuildSystem THEN 15 ELSE 0
        modernPoints == (IF result.patterns.usesCpp11Plus THEN 10 ELSE 0)
                        + (IF result.patterns.usesSmartPointers THEN 10 ELSE 0)
        memoryPoints == MathRound(result.memoryManagement.score * 15, 100)
        organizationPoints ==
            (IF result.style.hasHeaderGuards THEN 5 ELSE 0)
            + (IF result.metrics.classes > 0 THEN 5 ELSE 0)
            + (IF result.patterns.usesSTL THEN 5 ELSE 0)
        code == result.metrics.codeLines
        comments == IF code > 0 THEN result.metrics.commentLines ELSE 0
        commentPoints ==
            IF code > 0 /\ 10 * comments >= code /\ 10 * comments <= 3 * code
            THEN 10
            ELSE IF code > 0 /\ 20 * comments > code THEN 5
            ELSE 0
    IN  complexityPoints + buildPoints + modernPoints + memoryPoints
        + organizationPoints + commentPoints

\* the C/C++ penalty without its ceiling
PenaltyCppUncapped(result) ==
    SeverityCount(result.issues, "high") * 5
    + SeverityCount(result.issues, "medium") * 2

\* score -= Math.min(15, highIssues * 5 + mediumIssues * 2)
PenaltyCpp(result) ==
    Min(15, SeverityCount(result.issues, "high") * 5
            + SeverityCount(result.issues, "medium") * 2)

\* the points calculateCppScore adds up, before its last line
CppPoints(result) == PositivePointsCpp(result) - PenaltyCpp(result)

\* calculateCppScore without the lower clamp of its last line
calculateCppScoreUnclamped(result) == Min(100, CppPoints(result))

\* return Math.min(100, Math.max(0, score))
calculateCppScore(result) == Min(100, Max(0, CppPoints(result)))

generateHighlightsCpp(result) ==
    (IF result.patterns.usesCpp11Plus
     THEN <<"Uses modern C++ features (C++11+)">> ELSE <<>>)
    \o (IF result.patterns.usesSmartPointers
        THEN <<"Uses smart pointers for memory safety">> ELSE <<>>)
    \o (IF result.patterns.hasBuildSystem
        THEN <<"Build system configured (" \o result.patterns.buildSystem \o ")">>
        ELSE <<>>)
    \o (IF result.patterns.usesSTL
        THEN <<"Leverages STL containers/algorithms">> ELSE <<>>)
    \o (IF result.style.hasHeaderGuards THEN <<"Proper header guards">> ELSE <<>>)
    \o (IF result.complexity.averageX10 <= 70
        THEN <<"Low code complexity">> ELSE <<>>)
    \o (IF result.memoryManagement.score >= 80
        THEN <<"Good memory management practices">> ELSE <<>>)

analyzeCpp(in) ==
    IF in.cppFiles = 0 /\ in.headerFiles = 0
    THEN [CppResult EXCEPT !.score = 0, !.message = TRUE]
    ELSE LET counted == [CppResult EXCEPT
                            !.filesAnalyzed = in.cppFiles + in.headerFiles]
             scanned == analyzeFilesCpp(in.scan,
                            checkBuildSystem(in.buildSystem, counted))
             averaged == [scanned EXCEPT !.complexity.averageX10 = AverageCpp(scanned)]
             memory == calculateMemoryScore(averaged)
             scoredResult == [memory EXCEPT !.score = calculateCppScore(memory)]
         IN  [scoredResult EXCEPT !.highlights = generateHighlightsCpp(scoredResult)]

(***************************************************************************)
(* projectAnalyzer.js                                                      *)
(*   root = what analyzeProject finds in the root directory:               *)
(*     readme     [present, readable, wordCount, sections]                 *)
(*     license, tests, ci, docker, packageManager, docs: the results of    *)
(*                the file-name checks, checkForTests and checkForCI        *)
(*     structure  [srcDir, configFiles, rootFiles, meaningfulDirs]          *)
(***************************************************************************)
ReadmeSections ==
    {"header", "description", "install", "usage", "contributing", "license",
     "badges", "links"}

SectionPoints(section) ==
    CASE section = "header" -> 15
      [] section = "description" -> 10
      [] section = "install" -> 15
      [] section = "usage" -> 15
      [] OTHER -> 5

RECURSIVE SumPoints(_)
SumPoints(sections) ==
    IF sections = {} THEN 0
    ELSE LET x == CHOOSE y \in sections : TRUE
         IN  SectionPoints(x) + SumPoints(sections \ {x})

analyzeReadme(readme) ==
    LET lengthPoints ==
            IF readme.wordCount > 500 THEN 25
            ELSE IF readme.wordCount > 200 THEN 20
            ELSE IF readme.wordCount > 100 THEN 15
            ELSE IF readme.wordCount > 50 THEN 10
            ELSE 5
    IN  IF readme.readable
        THEN Min(100, lengthPoints + SumPoints(readme.sections))
        ELSE 0

analyzeStructure(structure) ==
    LET base == 50
        sourcePoints == IF structure.srcDir THEN 15 ELSE 0
        configPoints ==
            IF structure.configFiles > 0 /\ structure.configFiles < 10
            THEN 10 ELSE 0
        rootPoints ==
            IF structure.rootFiles <= 15 THEN 10
            ELSE IF structure.rootFiles > 30 THEN -15
            ELSE 0
        dirPoints == Min(15, structure.meaningfulDirs * 5)
    IN  Max(0, Min(100, base + sourcePoints + configPoints + rootPoints + dirPoints))

\* the project score with 5 points for a documentation directory
calculateProjectScoreWithDocs(metrics) ==
    LET score ==
            (IF metrics.hasReadme THEN MathRound(metrics.readmeQuality * 25, 100)
             ELSE 0)
            + (IF metrics.hasLicense THEN 10 ELSE 0)
            + (IF metrics.hasTests THEN 20 ELSE 0)
            + (IF metrics.hasCI THEN 15 ELSE 0)
            + (IF metrics.hasDocker THEN 5 ELSE 0)
            + (IF metrics.hasPackageManager THEN 10 ELSE 0)
            + (IF metrics.hasDocs THEN 5 ELSE 0)
            + MathRound(metrics.structureScore * 15, 100)
    IN  Min(100, score)

\* calculateProjectScore(metrics)
calculateProjectScore(metrics) ==
    LET score ==
            (IF metrics.hasReadme THEN MathRound(metrics.readmeQuality * 25, 100)
             ELSE 0)
            + (IF metrics.hasLicense THEN 10 ELSE 0)
            + (IF metrics.hasTests THEN 20 ELSE 0)
            + (IF metrics.hasCI THEN 15 ELSE 0)
            + (IF metrics.hasDocker THEN 5 ELSE 0)
            + (IF metrics.hasPackageManager THEN 10 ELSE 0)
            + MathRound(metrics.structureScore * 15, 100)
    IN  Min(100, score)

analyzeProject(root) ==
    LET metrics ==
            [hasReadme |-> root.readme.present,
             readmeQuality |-> IF root.readme.present
                               THEN analyzeReadme(root.readme) ELSE 0,
             hasLicense |-> root.license,
             hasTests |-> root.tests,
             hasCI |-> root.ci,
             hasDocker |-> root.docker,
             hasPackageManager |-> root.packageManager,
             hasDocs |-> root.docs,
             structureScore |-> analyzeStructure(root.structure),
             score |-> 0]
    IN  [metrics EXCEPT !.score = calculateProjectScore(metrics)]

(***************************************************************************)
(* ingestion.js: the report.                                               *)
(*   codeAnalysis.byLanguage is the sequence of [lang, analysis] in        *)
(*   insertion order, as Object.keys lists it.                             *)
(***************************************************************************)
\* scoreToGrade with exclusive lower bounds
scoreToGradeExclusive(score) ==
    IF score > 90 THEN "A+"
    ELSE IF score > 85 THEN "A"
    ELSE IF score > 80 THEN "A-"
    ELSE IF score > 75 THEN "B+"
    ELSE IF score > 70 THEN "B"
    ELSE IF score > 65 THEN "B-"
    ELSE IF score > 60 THEN "C+"
    ELSE IF score > 55 THEN "C"
    ELSE IF score > 50 THEN "C-"
    ELSE IF score > 40 THEN "D"
    ELSE "F"

scoreToGrade(score) ==
    IF score >= 90 THEN "A+"
    ELSE IF score >= 85 THEN "A"
    ELSE IF score >= 80 THEN "A-"
    ELSE IF score >= 75 THEN "B+"
    ELSE IF score >= 70 THEN "B"
    ELSE IF score >= 65 THEN "B-"
    ELSE IF score >= 60 THEN "C+"
    ELSE IF score >= 55 THEN "C"
    ELSE IF score >= 50 THEN "C-"
    ELSE IF score >= 40 THEN "D"
    ELSE "F"

generateSummary(score, metrics, codeAnalysis) ==
    (IF score >= 80 THEN <<"strong">>
     ELSE IF score >= 60 THEN <<"competent">>
     ELSE IF score >= 40 THEN <<"basic">>
     ELSE <<"substantial work">>)
    \o (IF metrics.hasTests THEN <<"Test coverage is present.">> ELSE <<>>)
    \o (IF metrics.hasReadme /\ metrics.readmeQuality >= 70
        THEN <<"Documentation is well-maintained.">> ELSE <<>>)
    \o (IF codeAnalysis.overallScore >= 75
        THEN <<"Code quality is above average.">> ELSE <<>>)

\* the strengths of the languages of byLanguage, in its order
RECURSIVE LanguageStrengths(_)
LanguageStrengths(byLanguage) ==
    IF byLanguage = <<>> THEN <<>>
    ELSE (IF Head(byLanguage).analysis.score >= 85
          THEN <<"Strong " \o Head(byLanguage).lang \o " implementation">>
          ELSE <<>>)
         \o LanguageStrengths(Tail(byLanguage))

\* the strengths identifyStrengths pushes, before its return
PushedStrengths(metrics, codeAnalysis) ==
    (IF metrics.readmeQuality >= 80 THEN <<"Excellent documentation">>
     ELSE <<>>)
    \o (IF metrics.hasTests THEN <<"Includes test suite">> ELSE <<>>)
    \o (IF metrics.hasCI THEN <<"CI/CD configured">> ELSE <<>>)
    \o (IF metrics.hasLicense THEN <<"Properly licensed">> ELSE <<>>)
    \o (IF metrics.structureScore >= 80
        THEN <<"Well-organized file structure">> ELSE <<>>)
    \o (IF codeAnalysis.overallScore >= 80 THEN <<"High code quality">>
        ELSE <<>>)
    \o LanguageStrengths(codeAnalysis.byLanguage)

\* identifyStrengths returning the pushed strengths as they are
identifyStrengthsNoDefault(metrics, codeAnalysis) ==
    PushedStrengths(metrics, codeAnalysis)

\* return strengths.length > 0 ? strengths : ['Repository analyzed successfully']
identifyStrengths(metrics, codeAnalysis) ==
    LET strengths == PushedStrengths(metrics, codeAnalysis)
    IN  IF Len(strengths) > 0 THEN strengths
        ELSE <<"Repository analyzed successfully">>

\* analysis.complexity?.average > 15
ComplexityAbove15(analysis) ==
    /\ "complexity" \in DOMAIN analysis
    /\ analysis.complexity.averageX10 > 150

\* analysis.issues?.length > 5
IssuesAbove5(analysis) ==
    /\ "issues" \in DOMAIN analysis
    /\ Len(analysis.issues) > 5

RECURSIVE LanguageImprovements(_)
LanguageImprovements(byLanguage) ==
    IF byLanguage = <<>> THEN <<>>
    ELSE (IF ComplexityAbove15(Head(byLanguage).analysis)
          THEN <<"Reduce complexity in " \o Head(byLanguage).lang \o " code">>
          ELSE <<>>)
         \o (IF IssuesAbove5(Head(byLanguage).analysis)
             THEN <<"Address code quality issues in " \o Head(byLanguage).lang>>
             ELSE <<>>)
         \o LanguageImprovements(Tail(byLanguage))

\* the improvements cut after four entries
TopFour(improvements) == Slice(improvements, 4)

\* improvements.slice(0, 5)
TopFive(improvements) == Slice(improvements, 5)

identifyImprovements(metrics, codeAnalysis) ==
    LET improvements ==
            (IF ~metrics.hasReadme THEN <<"Add a README file">>
             ELSE IF metrics.readmeQuality < 50
             THEN <<"Improve README documentation">>
             ELSE <<>>)
            \o (IF ~metrics.hasTests THEN <<"Add unit tests">> ELSE <<>>)
            \o (IF ~metrics.hasLicense THEN <<"Add a license file">> ELSE <<>>)
            \o (IF ~metrics.hasCI THEN <<"Set up CI/CD pipeline">> ELSE <<>>)
            \o (IF metrics.structureScore < 50
                THEN <<"Improve project organization">> ELSE <<>>)
            \o LanguageImprovements(codeAnalysis.byLanguage)
    IN  TopFive(improvements)

\* OverallScore with the two weights exchanged
OverallScoreSwapped(projectScore, codeScore) ==
    MathRound(projectScore * 6 + codeScore * 4, 10)

\* Math.round(projectScore * 0.4 + codeScore * 0.6)
OverallScore(projectScore, codeScore) ==
    MathRound(projectScore * 4 + codeScore * 6, 10)

compileReport(analyzedAt, stats, metrics, codeAnalysis) ==
    LET overallScore == OverallScore(metrics.score, codeAnalysis.overallScore)
    IN  [analyzedAt |-> analyzedAt,
         overallScore |-> overallScore,
         grade |-> scoreToGrade(overallScore),
         summary |-> generateSummary(overallScore, metrics, codeAnalysis),
         languages |-> stats,
         projectMetrics |-> metrics,
         codeAnalysis |-> codeAnalysis,
         strengths |-> identifyStrengths(metrics, codeAnalysis),
         improvements |-> identifyImprovements(metrics, codeAnalysis)]

(***************************************************************************)
(* router.js: runAnalyzers.                                                *)
(***************************************************************************)
SUPPORTED_LANGUAGES == {"Python", "JavaScript", "TypeScript", "C++", "C"}

\* ANALYZERS[lang]
ANALYZERS(lang) ==
    CASE lang = "Python" -> "analyzePython"
      [] lang = "JavaScript" -> "analyzeJavaScript"
      [] lang = "TypeScript" -> "analyzeJavaScript"
      [] lang = "C++" -> "analyzeCpp"
      [] lang = "C" -> "analyzeCpp"
      [] lang = "C/C++ Header" -> "null"
      [] lang = "C++ Header" -> "null"
      [] OTHER -> Undefined

\* the filter of runAnalyzers
Significant(entry) ==
    entry.lang \in SUPPORTED_LANGUAGES /\ entry.percentage >= 5

\* SelectLanguages cut after four entries instead of three
SelectLanguagesFour(stats) == Slice(SelectSeq(stats.breakdown, Significant), 4)

\* Object.entries(languageStats.breakdown).filter(...).slice(0, 3)
SelectLanguages(stats) == Slice(SelectSeq(stats.breakdown, Significant), 3)

\* obj[key] = value on an object kept as the sequence of its entries
ObjectSet(obj, key, value) ==
    IF HasKey(obj, key)
    THEN [obj EXCEPT ![KeyIndex(obj, key)].analysis = value]
    ELSE Append(obj, [lang |-> key, analysis |-> value])

\* a results object kept at module level: the languages an earlier call
\* analyzed are still in it
NewResultsShared ==
    [byLanguage |-> <<>>, overallScore |-> 0,
     analyzedLanguages |-> IF scored = Null THEN <<>>
                           ELSE [i \in 1..Len(scored.calls) |-> scored.calls[i].lang]]

\* const results = { byLanguage: {}, overallScore: 0, analyzedLanguages: [] }
NewResults == [byLanguage |-> <<>>, overallScore |-> 0, analyzedLanguages |-> <<>>]

\* NoLanguages with the score left at its initial 0
NoLanguagesZero == NewResults @@ [message |-> TRUE]

\* the return of runAnalyzers when nothing is selected
NoLanguages ==
    [NewResults EXCEPT !.overallScore = 50] @@ [message |-> TRUE]

\* The locals of runAnalyzers' loop: st = [results, totalWeight, weightedScore,
\* thrown]; thrown: an exception leaves runAnalyzers.
\* the try block after the analyzer returned analysis
AnalyzerReturned(st, entry, analysis) ==
    [st EXCEPT
        !.results.byLanguage = ObjectSet(@, entry.lang, analysis),
        !.results.analyzedLanguages = Append(@, entry.lang),
        !.totalWeight = @ + entry.percentage,
        !.weightedScore = @ + analysis.score * entry.percentage]

\* AnalyzerFailed without the catch: the exception leaves runAnalyzers
AnalyzerFailedRethrows(st, entry, message) == [st EXCEPT !.thrown = TRUE]

\* AnalyzerFailed with the default score weighted like a returned one
AnalyzerFailedWeighs(st, entry, message) ==
    [st EXCEPT
        !.results.byLanguage =
            ObjectSet(@, entry.lang, [score |-> 50, error |-> message]),
        !.totalWeight = @ + entry.percentage,
        !.weightedScore = @ + 50 * entry.percentage]

\* the catch block
AnalyzerFailed(st, entry, message) ==
    [st EXCEPT
        !.results.byLanguage =
            ObjectSet(@, entry.lang, [score |-> 50, error |-> message])]

\* WeightedAverage with the quotient truncated instead of rounded
WeightedAverageTruncated(weighted, weight) ==
    IF weight > 0 THEN weighted \div weight ELSE 50

\* totalWeight > 0 ? Math.round(weightedScore / totalWeight) : 50
WeightedAverage(weighted, weight) ==
    IF weight > 0 THEN MathRound(weighted, weight) ELSE 50

(***************************************************************************)
(* The snapshots the pipeline is run on.                                   *)
(***************************************************************************)
\* files in one snapshot
MaxFiles == 5

ExtOrder == <<".py", ".js", ".ts", ".cpp", ".c", ".h", ".rb">>

Reverse(s) == [i \in 1..Len(s) |-> s[Len(s) + 1 - i]]

\* the orders in which a walk reaches the files, as positions of ExtOrder
WalkOrders == {[i \in 1..Len(ExtOrder) |-> i], Reverse([i \in 1..Len(ExtOrder) |-> i])}

\* the line counts a file of an extension may have
LinesFor(ext) ==
    IF ext = ".rb" THEN {50, 64}
    ELSE IF ext \in {".py", ".js", ".cpp"} THEN {3, 7}
    ELSE {7}

\* the line count of the file with the i-th extension, 0: no such file
LinesChoice(i) == {0} \cup LinesFor(ExtOrder[i])

FileChoices ==
    {choice \in LinesChoice(1) \X LinesChoice(2) \X LinesChoice(3) \X LinesChoice(4)
                 \X LinesChoice(5) \X LinesChoice(6) \X LinesChoice(7) :
        Cardinality({i \in 1..Len(ExtOrder) : choice[i] > 0}) <= MaxFiles}

FilesOf(order, choice) ==
    LET present == SelectSeq(order, LAMBDA i : choice[i] > 0)
    IN  [k \in 1..Len(present) |->
            [ext |-> ExtOrder[present[k]], lines |-> choice[present[k]],
             bytes |-> 40, readable |-> TRUE]]

Snapshots == {FilesOf(order, choice) : order \in WalkOrders, choice \in FileChoices}

NoReadme == [present |-> FALSE, readable |-> FALSE, wordCount |-> 0, sections |-> {}]

\* The entries of the root directory that analyzeProject reads are apart from
\* the files above: README.rst, LICENSE, Dockerfile, requirements.txt have no
\* extension of EXTENSION_MAP.  A clone always holds .git, which readdir lists
\* and analyzeStructure counts among the entries that start with a dot.
\* the clone of a repository that holds no file at all: only .git
EmptyRepository ==
    [readme |-> NoReadme, license |-> FALSE, tests |-> FALSE, ci |-> FALSE,
     docker |-> FALSE, packageManager |-> FALSE, docs |-> FALSE,
     structure |-> [srcDir |-> FALSE, configFiles |-> 1, rootFiles |-> 0,
                    meaningfulDirs |-> 0]]

\* sources under src/, a short README, a manifest
PlainRoot ==
    [readme |-> [present |-> TRUE, readable |-> TRUE, wordCount |-> 60,
                 sections |-> {"header", "install"}],
     license |-> FALSE, tests |-> FALSE, ci |-> FALSE, docker |-> FALSE,
     packageManager |-> TRUE, docs |-> FALSE,
     structure |-> [srcDir |-> TRUE, configFiles |-> 2, rootFiles |-> 3,
                    meaningfulDirs |-> 1]]

\* a complete README, license, tests, CI, docs
CompleteRoot ==
    [readme |-> [present |-> TRUE, readable |-> TRUE, wordCount |-> 600,
                 sections |-> ReadmeSections],
     license |-> TRUE, tests |-> TRUE, ci |-> TRUE, docker |-> TRUE,
     packageManager |-> TRUE, docs |-> TRUE,
     structure |-> [srcDir |-> TRUE, configFiles |-> 5, rootFiles |-> 8,
                    meaningfulDirs |-> 3]]

Roots == {EmptyRepository, PlainRoot, CompleteRoot}

\* a snapshot with source files has a root directory that holds something
Repos ==
    {r \in [files : Snapshots, root : Roots] :
        r.root = EmptyRepository => r.files = <<>>}

\* what the analyzers read in the files of a snapshot, two cases each
PythonSamples ==
    { [radon |-> [kind |-> "json", functions |-> <<3>>, broken |-> FALSE],
       pylint |-> [rejected |-> FALSE, stdout |-> "[]",
                   counts |-> [error |-> 0, warning |-> 0, convention |-> 0,
                               refactor |-> 0]],
       scan |-> [codeLines |-> 10, commentLines |-> 0, docstrings |-> 1,
                 classes |-> 2]],
      [radon |-> [kind |-> "json", functions |-> <<16, 26>>, broken |-> FALSE],
       pylint |-> [rejected |-> FALSE, stdout |-> "json",
                   counts |-> [error |-> 4, warning |-> 3, convention |-> 1,
                               refactor |-> 0]],
       scan |-> [codeLines |-> 10, commentLines |-> 0, docstrings |-> 0,
                 classes |-> 0]] }

SimpleJS ==
    [config |-> [hasLinter |-> TRUE, hasFormatter |-> FALSE,
                 usesTypeScript |-> FALSE, framework |-> "null"],
     scan |-> [codeLines |-> 100, commentLines |-> 1, functions |-> 1,
               arrowFunctions |-> 0, classes |-> 0, usesModules |-> TRUE,
               usesAsync |-> TRUE, tsFiles |-> FALSE, closed |-> <<2>>,
               issues |-> <<>>]]

TangledJS ==
    [config |-> [hasLinter |-> FALSE, hasFormatter |-> FALSE,
                 usesTypeScript |-> FALSE, framework |-> "null"],
     scan |-> [codeLines |-> 100, commentLines |-> 0, functions |-> 1,
               arrowFunctions |-> 0, classes |-> 0, usesModules |-> FALSE,
               usesAsync |-> FALSE, tsFiles |-> FALSE, closed |-> <<26>>,
               issues |-> <<"low", "low", "low", "low", "low", "low">>]]

JSSamples == {SimpleJS, TangledJS}

CppSamples ==
    { [buildSystem |-> "CMake",
       scan |-> [codeLines |-> 100, commentLines |-> 20, functions |-> 1,
                 classes |-> 1, hasHeaderGuards |-> TRUE, usesSTL |-> TRUE,
                 usesSmartPointers |-> TRUE, usesCpp11Plus |-> TRUE,
                 rawPointers |-> 0, smartPointers |-> 2, newDelete |-> 0,
                 closed |-> <<3>>, issues |-> <<>>]],
      [buildSystem |-> "null",
       scan |-> [codeLines |-> 100, commentLines |-> 0, functions |-> 1,
                 classes |-> 0, hasHeaderGuards |-> TRUE, usesSTL |-> FALSE,
                 usesSmartPointers |-> FALSE, usesCpp11Plus |-> FALSE,
                 rawPointers |-> 2, smartPointers |-> 0, newDelete |-> 6,
                 closed |-> <<26>>, issues |-> <<"medium">>]] }

Samples(analyzer) ==
    CASE analyzer = "analyzePython" -> PythonSamples
      [] analyzer = "analyzeJavaScript" -> JSSamples
      [] analyzer = "analyzeCpp" -> CppSamples

\* the files an analyzer's own walk collects, by the pattern it matches
FilesMatching(files, exts) == Count(files, LAMBDA f : f.ext \in exts)

\* analyzer(repoPath): the analyzer's walk over the snapshot, then its scan
RunAnalyzer(analyzer, files, sample) ==
    CASE analyzer = "analyzePython" ->
            analyzePython([pythonFiles |-> FilesMatching(files, {".py"}),
                           radon |-> sample.radon, pylint |-> sample.pylint,
                           scan |-> sample.scan])
      [] analyzer = "analyzeJavaScript" ->
            analyzeJavaScript(
                [jsFiles |-> FilesMatching(files, {".js", ".jsx", ".ts", ".tsx"}),
                 config |-> sample.config, scan |-> sample.scan])
      [] analyzer = "analyzeCpp" ->
            analyzeCpp(
                [cppFiles |-> FilesMatching(files, {".cpp", ".cc", ".cxx", ".c"}),
                 headerFiles |-> FilesMatching(files, {".h", ".hpp", ".hxx"}),
                 buildSystem |-> sample.buildSystem, scan |-> sample.scan])

\* the values of new Date()
Times == {1, 2}

(***************************************************************************)
(* ingestion.js analyzeRepo, one step per awaited call; runAnalyzers one   *)
(* step per iteration of its loop.                                         *)
(*   pc                 the awaited call that comes next                   *)
(*   repo               the snapshot the clone produces                    *)
(*   tempDir            the temporary directory exists                     *)
(*   calls              the analyzers invoked so far, in order             *)
(*   outcome            "running", "returned" (a report) or "thrown"       *)
(***************************************************************************)
Init ==
    /\ pc = "clone"
    /\ repo \in Repos
    /\ tempDir = FALSE
    /\ languageStats = Null
    /\ projectMetrics = Null
    /\ languagesToAnalyze = <<>>
    /\ cursor = 0
    /\ totalWeight = 0
    /\ weightedScore = 0
    /\ results = Null
    /\ calls = <<>>
    /\ report = Null
    /\ outcome = "running"
    /\ scored = Null

\* await git.clone(repoUrl, tempDir, { depth: 1 })
Clone ==
    /\ pc = "clone"
    /\ \E cloned \in BOOLEAN :
        IF cloned
        THEN /\ tempDir' = TRUE
             /\ pc' = "detect"
             /\ UNCHANGED outcome
        ELSE /\ tempDir' = FALSE
             /\ pc' = "cleanup"
             /\ outcome' = "thrown"
    /\ UNCHANGED <<repo, languageStats, projectMetrics, languagesToAnalyze,
                   cursor, totalWeight, weightedScore, results, calls, report,
                   scored>>

\* const languageStats = await detectLanguages(tempDir)
DetectLanguages ==
    /\ pc = "detect"
    /\ languageStats' = detectLanguages(repo.files)
    /\ pc' = "project"
    /\ UNCHANGED <<repo, tempDir, projectMetrics, languagesToAnalyze, cursor,
                   totalWeight, weightedScore, results, calls, report, outcome,
                   scored>>

\* const projectMetrics = await analyzeProject(tempDir)
AnalyzeProject ==
    /\ pc = "project"
    /\ projectMetrics' = analyzeProject(repo.root)
    /\ pc' = "router"
    /\ UNCHANGED <<repo, tempDir, languageStats, languagesToAnalyze, cursor,
                   totalWeight, weightedScore, results, calls, report, outcome,
                   scored>>

\* runAnalyzers up to its loop
RunAnalyzersBegin ==
    /\ pc = "router"
    /\ languagesToAnalyze' = SelectLanguages(languageStats)
    /\ IF languagesToAnalyze' = <<>>
       THEN /\ results' = NoLanguages
            /\ pc' = "compile"
       ELSE /\ results' = NewResults
            /\ pc' = "analyze"
    /\ cursor' = 1
    /\ totalWeight' = 0
    /\ weightedScore' = 0
    /\ UNCHANGED <<repo, tempDir, languageStats, projectMetrics, calls, report,
                   outcome, scored>>

\* what one call of an analyzer does: it throws, or it returns its result
Runs(analyzer) ==
    {[threw |-> TRUE, sample |-> Null]}
    \cup {[threw |-> FALSE, sample |-> sample] : sample \in Samples(analyzer)}

\* one iteration of the loop of runAnalyzers
AnalyzeLanguage ==
    /\ pc = "analyze"
    /\ cursor <= Len(languagesToAnalyze)
    /\ LET entry == languagesToAnalyze[cursor]
           analyzer == ANALYZERS(entry.lang)
           st == [results |-> results, totalWeight |-> totalWeight,
                  weightedScore |-> weightedScore, thrown |-> FALSE]
       IN  IF analyzer \in {"null", Undefined}
           THEN /\ cursor' = cursor + 1
                /\ UNCHANGED <<results, totalWeight, weightedScore, calls, pc,
                               outcome>>
           ELSE \E run \in Runs(analyzer) :
                LET next == IF run.threw
                            THEN AnalyzerFailed(st, entry, "analysis failed")
                            ELSE AnalyzerReturned(st, entry,
                                    RunAnalyzer(analyzer, repo.files, run.sample))
                IN  /\ calls' = Append(calls, [lang |-> entry.lang,
                                                analyzer |-> analyzer,
                                                threw |-> run.threw,
                                                sample |-> run.sample])
                    /\ results' = next.results
                    /\ totalWeight' = next.totalWeight
                    /\ weightedScore' = next.weightedScore
                    /\ IF next.thrown
                       THEN /\ pc' = "cleanup"
                            /\ outcome' = "thrown"
                            /\ UNCHANGED cursor
                       ELSE /\ cursor' = cursor + 1
                            /\ UNCHANGED <<pc, outcome>>
    /\ UNCHANGED <<repo, tempDir, languageStats, projectMetrics,
                   languagesToAnalyze, report, scored>>

\* runAnalyzers after its loop
RunAnalyzersEnd ==
    /\ pc = "analyze"
    /\ cursor > Len(languagesToAnalyze)
    /\ results' = [results EXCEPT
                      !.overallScore = WeightedAverage(weightedScore, totalWeight)]
    /\ pc' = "compile"
    /\ UNCHANGED <<repo, tempDir, languageStats, projectMetrics,
                   languagesToAnalyze, cursor, totalWeight, weightedScore, calls,
                   report, outcome, scored>>

\* const report = compileReport(...); return report
CompileReport ==
    /\ pc = "compile"
    /\ \E now \in Times :
        report' = compileReport(now, languageStats, projectMetrics, results)
    /\ outcome' = "returned"
    /\ pc' = "cleanup"
    /\ UNCHANGED <<repo, tempDir, languageStats, projectMetrics,
                   languagesToAnalyze, cursor, totalWeight, weightedScore,
                   results, calls, scored>>

\* finally: await fs.rm(tempDir, { recursive: true, force: true })
Cleanup ==
    /\ pc = "cleanup"
    /\ \E removed \in BOOLEAN : tempDir' = (tempDir /\ ~removed)
    /\ pc' = "done"
    /\ UNCHANGED <<repo, languageStats, projectMetrics, languagesToAnalyze,
                   cursor, totalWeight, weightedScore, results, calls, report,
                   outcome, scored>>

Next ==
    \/ Clone
    \/ DetectLanguages
    \/ AnalyzeProject
    \/ RunAnalyzersBegin
    \/ AnalyzeLanguage
    \/ RunAnalyzersEnd
    \/ CompileReport
    \/ Cleanup

Spec == Init /\ [][Next]_vars

(***************************************************************************)
(* Properties of the pipeline.                                             *)
(***************************************************************************)
\* runAnalyzers has returned
RouterReturned == pc \in {"compile", "cleanup", "done"} /\ results # Null

\* C4: when at least one selected language was analyzed successfully,
\* codeAnalysis.overallScore is the percentage-weighted mean of the scores of
\* the analyzed languages, divided by their total weight and rounded to the
\* nearest integer; it lies between the lowest and the highest analyzed score;
\* Python at 70% scoring 80 with JavaScript at 30% scoring 60 gives 74.
C4_WeightedMean ==
    (RouterReturned /\ results.analyzedLanguages # <<>>) =>
        LET langs == results.analyzedLanguages
            ScoreOf(l) ==
                (CHOOSE e \in Range(results.byLanguage) : e.lang = l).analysis.score
            PctOf(l) ==
                (CHOOSE e \in Range(languageStats.breakdown) : e.lang = l).percentage
            num == SumSeq([i \in 1..Len(langs) |-> ScoreOf(langs[i]) * PctOf(langs[i])])
            den == SumSeq([i \in 1..Len(langs) |-> PctOf(langs[i])])
            r == results.overallScore
        IN  /\ den > 0
            /\ 2 * r * den - den <= 2 * num
            /\ 2 * num < 2 * r * den + den
            /\ \E i \in 1..Len(langs) : ScoreOf(langs[i]) <= r
            /\ \E i \in 1..Len(langs) : r <= ScoreOf(langs[i])
            /\ (/\ Range(langs) = {"Python", "JavaScript"}
                /\ PctOf("Python") = 70 /\ ScoreOf("Python") = 80
                /\ PctOf("JavaScript") = 30 /\ ScoreOf("JavaScript") = 60)
               => r = 74

\* the example of C4 has happened, and the mean is not a whole number
C4_Witness ==
    /\ RouterReturned
    /\ results.analyzedLanguages = <<"Python", "JavaScript">>
    /\ languageStats.breakdown[1].percentage = 70
    /\ languageStats.breakdown[2].percentage = 30
    /\ results.byLanguage[1].analysis.score = 80
    /\ results.byLanguage[2].analysis.score = 60
    /\ results.overallScore = 74

\* C5: when no language of the breakdown is both supported and at or above
\* 5%, runAnalyzers returns overallScore 50, an empty byLanguage, an empty
\* analyzedLanguages, and no analyzer has been invoked.
C5_NothingQualifies ==
    (/\ RouterReturned
     /\ \A i \in 1..Len(languageStats.breakdown) :
            \/ languageStats.breakdown[i].lang
                  \notin {"Python", "JavaScript", "TypeScript", "C++", "C"}
            \/ languageStats.breakdown[i].percentage < 5)
    => /\ results.overallScore = 50
       /\ results.byLanguage = <<>>
       /\ results.analyzedLanguages = <<>>
       /\ calls = <<>>

\* runAnalyzers returned for a breakdown that holds a supported language below
\* 5% next to an unsupported one
C5_Witness ==
    /\ RouterReturned
    /\ calls = <<>>
    /\ results.overallScore = 50
    /\ \E i \in 1..Len(languageStats.breakdown) :
        /\ languageStats.breakdown[i].lang \in SUPPORTED_LANGUAGES
        /\ languageStats.breakdown[i].percentage < 5
    /\ \E i \in 1..Len(languageStats.breakdown) :
        languageStats.breakdown[i].lang = "Ruby"

\* the repository holds no file of any kind
ZeroFiles == repo.files = <<>> /\ repo.root = EmptyRepository

\* C6: the pipeline run on a repository with zero files of any kind ends in
\* an error surfaced to the caller; it never returns a report.
C6_ZeroFilesFatal == ZeroFiles => (outcome # "returned" /\ report = Null)

\* a report was returned for a repository with zero files of any kind
C6_Counterexample == ~(ZeroFiles /\ outcome = "returned" /\ report # Null)

\* C7: an analyzer that throws does not make runAnalyzers fail: the entry of
\* its language is {score: 50, error: message}; every other selected language
\* is analyzed, in the order of the selection, and its entry is the result
\* its analyzer returned, whether the failure came before or after it.
C7_FailureIsolated ==
    (calls # <<>>) =>
        /\ outcome # "thrown"
        /\ Len(calls) <= Len(languagesToAnalyze)
        /\ RouterReturned => Len(calls) = Len(languagesToAnalyze)
        /\ \A i \in 1..Len(calls) :
            LET lang == calls[i].lang
                entries == {e \in Range(results.byLanguage) : e.lang = lang}
            IN  /\ lang = languagesToAnalyze[i].lang
                /\ Cardinality(entries) = 1
                /\ \A e \in entries :
                    IF calls[i].threw
                    THEN /\ e.analysis = [score |-> 50, error |-> "analysis failed"]
                         /\ \A j \in 1..Len(results.analyzedLanguages) :
                                results.analyzedLanguages[j] # lang
                    ELSE /\ e.analysis = RunAnalyzer(calls[i].analyzer, repo.files,
                                                     calls[i].sample)
                         /\ \E j \in 1..Len(results.analyzedLanguages) :
                                results.analyzedLanguages[j] = lang

\* the second of three analyzers threw, the first and the third returned
C7_Witness ==
    /\ RouterReturned
    /\ Len(calls) = 3
    /\ ~calls[1].threw /\ calls[2].threw /\ ~calls[3].threw
    /\ results.byLanguage[2].analysis = [score |-> 50, error |-> "analysis failed"]
    /\ Len(results.analyzedLanguages) = 2
    /\ outcome = "returned"

\* C10: the languages handed to analyzers are the first three, in the
\* descending line-count order of the breakdown, of the languages that are
\* supported and have percentage >= 5; a header label or an unsupported label
\* is never selected; at most three analyzers are invoked.
C10_Selection ==
    (pc \in {"analyze", "compile", "cleanup", "done"} /\ results # Null) =>
        LET bd == languageStats.breakdown
            Qualifies(i) ==
                /\ bd[i].lang \in {"Python", "JavaScript", "TypeScript", "C++", "C"}
                /\ bd[i].percentage >= 5
            \* the number of qualifying entries among the first i
            Rank(i) == Cardinality({j \in 1..i : Qualifies(j)})
        IN  /\ \A i, j \in 1..Len(bd) : i < j => bd[i].lines >= bd[j].lines
            /\ Len(languagesToAnalyze) = Min(3, Rank(Len(bd)))
            /\ \A i \in 1..Len(bd) :
                (Qualifies(i) /\ Rank(i) <= 3) => languagesToAnalyze[Rank(i)] = bd[i]
            /\ \A k \in 1..Len(languagesToAnalyze) :
                languagesToAnalyze[k].lang \notin
                    {"C/C++ Header", "C++ Header", "Ruby", Undefined}
            /\ Len(calls) <= 3
            /\ \A k \in 1..Len(calls) : calls[k].lang = languagesToAnalyze[k].lang

\* four languages qualify and a header outranks them: three are selected
C10_Witness ==
    /\ RouterReturned
    /\ Len(languageStats.breakdown) = 5
    /\ languageStats.breakdown[1].lang = "C/C++ Header"
    /\ \A i \in 2..5 : Significant(languageStats.breakdown[i])
    /\ Len(languagesToAnalyze) = 3
    /\ Len(calls) = 3

(***************************************************************************)
(* The scoring functions, each applied to inputs drawn from bounded sets.  *)
(*   scored = [call, arg, returned, value]: the function, its argument,    *)
(*   and once it has returned, its result                                  *)
(***************************************************************************)
\* issues of one severity that one scan collects
MaxIssues == 8
\* messages of one type that pylint reports
MaxPylint == 21
\* functions that radon reports
MaxFunctions == 2

Repeat(x, n) == [i \in 1..n |-> x]

SeqsUpTo(S, n) == UNION {[1..k -> S] : k \in 0..n}

RadonOutputs ==
    {[kind |-> k, functions |-> <<>>, broken |-> FALSE] : k \in {"error", "blank"}}
    \cup [kind : {"json"}, functions : SeqsUpTo({3, 26}, MaxFunctions),
          broken : BOOLEAN]

NoMessages == [error |-> 0, warning |-> 0, convention |-> 0, refactor |-> 0]

PylintOutputs ==
    [rejected : BOOLEAN, stdout : {"", "[]", "garbage"}, counts : {NoMessages}]
    \cup [rejected : {FALSE}, stdout : {"json"},
          counts : [error : {0, 1, MaxPylint}, warning : {0, 1, MaxPylint},
                    convention : {0, 1}, refactor : {0, 1}] \ {NoMessages}]

PythonScans ==
    [codeLines : {0, 10}, commentLines : {0, 2, 5}, docstrings : {0, 1, 2},
     classes : {0, 6}]

PythonInputs ==
    [pythonFiles : {1}, radon : RadonOutputs, pylint : PylintOutputs,
     scan : PythonScans]
    \cup {[pythonFiles |-> 0, radon |-> r, pylint |-> y, scan |-> c] :
            r \in {x \in RadonOutputs : x.kind = "blank"},
            y \in {x \in PylintOutputs : ~x.rejected /\ x.stdout = ""},
            c \in {x \in PythonScans :
                     x.codeLines + x.commentLines + x.docstrings + x.classes = 0}}

\* code lines and comment lines of one scan
LineCounts == {<<0, 0>>, <<100, 0>>, <<100, 2>>, <<100, 6>>, <<100, 20>>}

JSConfigs ==
    [hasLinter : BOOLEAN, hasFormatter : BOOLEAN, usesTypeScript : BOOLEAN,
     framework : {"null", "React"}]

\* function starts, arrow functions and the complexities of the functions
\* that closed: a function is categorized only after its start was counted
JSFunctionCounts ==
    {<<0, 0, <<>>>>, <<1, 0, <<>>>>, <<1, 30, <<>>>>, <<1, 0, <<1>>>>,
     <<1, 0, <<2>>>>,
     <<1, 30, <<2>>>>, <<2, 0, <<2>>>>, <<2, 0, <<26, 26>>>>,
     <<2, 30, <<26, 26>>>>}

JSScans ==
    {[codeLines |-> lc[1], commentLines |-> lc[2], functions |-> fn[1],
      arrowFunctions |-> fn[2], classes |-> cl, usesModules |-> md[1],
      usesAsync |-> md[2], tsFiles |-> ts, closed |-> fn[3], issues |-> is] :
        lc \in LineCounts \ {<<100, 6>>},
        fn \in JSFunctionCounts,
        cl \in {0, 1},
        md \in {<<FALSE, FALSE>>, <<TRUE, FALSE>>, <<TRUE, TRUE>>},
        ts \in BOOLEAN,
        is \in {<<>>, Repeat("low", MaxIssues)}}

JSInputs ==
    [jsFiles : {1}, config : JSConfigs, scan : JSScans]
    \cup {[jsFiles |-> 0, config |-> c, scan |-> x] :
            c \in {y \in JSConfigs : ~y.hasLinter /\ ~y.usesTypeScript
                                      /\ y.framework = "null"},
            x \in {y \in JSScans :
                     /\ y.codeLines = 0 /\ y.functions = 0 /\ y.classes = 0
                     /\ ~y.usesModules /\ ~y.tsFiles
                     /\ y.closed = <<>> /\ y.issues = <<>>}}

\* raw pointers, smart pointers, new/delete of one scan
PointerCounts == {<<0, 0, 0>>, <<0, 2, 0>>, <<2, 0, 6>>, <<0, 0, 3>>}

\* function starts and the complexities of the functions that closed
CppFunctionCounts ==
    {<<0, <<>>>>, <<1, <<>>>>, <<1, <<1>>>>, <<1, <<3>>>>, <<2, <<3>>>>,
     <<2, <<8, 3>>>>,
     <<2, <<26, 26>>>>}

CppScans ==
    {[codeLines |-> lc[1], commentLines |-> lc[2], functions |-> fn[1],
      classes |-> cl, hasHeaderGuards |-> fl[1], usesSTL |-> fl[2],
      usesSmartPointers |-> pt[2] > 0, usesCpp11Plus |-> fl[3],
      rawPointers |-> pt[1], smartPointers |-> pt[2], newDelete |-> pt[3],
      closed |-> fn[2], issues |-> is] :
        lc \in LineCounts \ {<<100, 2>>},
        fn \in CppFunctionCounts,
        cl \in {0, 1},
        fl \in BOOLEAN \X BOOLEAN \X BOOLEAN,
        pt \in PointerCounts,
        is \in {<<>>, <<"low">>, Repeat("medium", MaxIssues)}}

\* four source files: each file adds at most two issues of severity medium
\* (goto, long functions), a header one more (no header guard)
CppInputs ==
    [cppFiles : {4}, headerFiles : {0, 1}, buildSystem : {"null", "CMake"},
     scan : CppScans]
    \cup {[cppFiles |-> 0, headerFiles |-> 0, buildSystem |-> "null", scan |-> x] :
            x \in {y \in CppScans :
                     /\ y.codeLines = 0 /\ y.functions = 0 /\ y.classes = 0
                     /\ ~y.hasHeaderGuards /\ ~y.usesSTL /\ ~y.usesCpp11Plus
                     /\ y.rawPointers + y.smartPointers + y.newDelete = 0
                     /\ y.closed = <<>> /\ y.issues = <<>>}}

Readmes ==
    {NoReadme}
    \cup [present : {TRUE}, readable : {FALSE}, wordCount : {0}, sections : {{}}]
    \cup [present : {TRUE}, readable : {TRUE}, wordCount : {0, 60, 150, 250, 600},
          sections : {{}, {"header", "install"}, ReadmeSections}]

Structures ==
    [srcDir : BOOLEAN, configFiles : {0, 1, 10}, rootFiles : {0, 16, 31},
     meaningfulDirs : {0, 4}]

\* a docs directory is one of the meaningful directories
ProjectRoots ==
    {[readme |-> rd, license |-> fl[1], tests |-> fl[2], ci |-> fl[3],
      docker |-> fl[4], packageManager |-> fl[5],
      docs |-> st.meaningfulDirs > 0, structure |-> st] :
        rd \in Readmes,
        fl \in BOOLEAN \X BOOLEAN \X BOOLEAN \X BOOLEAN \X BOOLEAN,
        st \in Structures}

\* One run of runAnalyzers from its selection on: run[k] = [lang, percentage,
\* threw, analysis] is the k-th selected language and what its analyzer does,
\* throw or return analysis.
RouterRuns ==
    {run \in SeqsUpTo([lang : {"Python", "JavaScript"}, percentage : {5, 45},
                       threw : BOOLEAN,
                       analysis : [score : {0, 50, 77, 100}]], 2) :
        /\ \A i \in 1..Len(run) : run[i].threw => run[i].analysis.score = 0
        /\ Len(run) = 2 => run[1].lang # run[2].lang}

\* the loop of runAnalyzers over the selected languages
RECURSIVE runAnalyzersLoop(_, _, _)
runAnalyzersLoop(st, run, k) ==
    IF k > Len(run) THEN st
    ELSE LET entry == [lang |-> run[k].lang, percentage |-> run[k].percentage]
         IN  runAnalyzersLoop(
                IF run[k].threw
                THEN AnalyzerFailed(st, entry, "analysis failed")
                ELSE AnalyzerReturned(st, entry, run[k].analysis),
                run, k + 1)

\* runAnalyzers from the selection on
runAnalyzersFrom(run) ==
    IF run = <<>> THEN NoLanguages
    ELSE LET st == runAnalyzersLoop(
                      [results |-> NewResults, totalWeight |-> 0,
                       weightedScore |-> 0, thrown |-> FALSE], run, 1)
         IN  [st.results EXCEPT
                !.overallScore = WeightedAverage(st.weightedScore, st.totalWeight)]

\* projectMetrics.score and codeAnalysis.overallScore, as the analyzers and the
\* router leave them
ScorePairs == (0..100) \X (0..100)

ScoreInputs ==
    [call : {"analyzePython"}, arg : PythonInputs]
    \cup [call : {"analyzeJavaScript"}, arg : JSInputs]
    \cup [call : {"analyzeCpp"}, arg : CppInputs]
    \cup [call : {"analyzeProject"}, arg : ProjectRoots]
    \cup [call : {"runAnalyzers"}, arg : RouterRuns]
    \cup [call : {"compileReport"}, arg : ScorePairs]

pipelineVars ==
    <<pc, repo, tempDir, languageStats, projectMetrics, languagesToAnalyze,
      cursor, totalWeight, weightedScore, results, calls, report, outcome>>

InitScore ==
    /\ pc = "score"
    /\ repo = Null
    /\ tempDir = FALSE
    /\ languageStats = Null
    /\ projectMetrics = Null
    /\ languagesToAnalyze = <<>>
    /\ cursor = 0
    /\ totalWeight = 0
    /\ weightedScore = 0
    /\ results = Null
    /\ calls = <<>>
    /\ report = Null
    /\ outcome = "running"
    /\ \E in \in ScoreInputs :
        scored = [call |-> in.call, arg |-> in.arg, returned |-> FALSE,
                  value |-> Null]

Returns(value) == scored' = [scored EXCEPT !.returned = TRUE, !.value = value]

ScorePython ==
    /\ scored.call = "analyzePython" /\ ~scored.returned
    /\ Returns(analyzePython(scored.arg))
    /\ UNCHANGED pipelineVars

ScoreJavaScript ==
    /\ scored.call = "analyzeJavaScript" /\ ~scored.returned
    /\ Returns(analyzeJavaScript(scored.arg))
    /\ UNCHANGED pipelineVars

ScoreCpp ==
    /\ scored.call = "analyzeCpp" /\ ~scored.returned
    /\ Returns(analyzeCpp(scored.arg))
    /\ UNCHANGED pipelineVars

ScoreProject ==
    /\ scored.call = "analyzeProject" /\ ~scored.returned
    /\ Returns(analyzeProject(scored.arg))
    /\ UNCHANGED pipelineVars

ScoreRouter ==
    /\ scored.call = "runAnalyzers" /\ ~scored.returned
    /\ Returns(runAnalyzersFrom(scored.arg))
    /\ UNCHANGED pipelineVars

ScoreReport ==
    /\ scored.call = "compileReport" /\ ~scored.returned
    /\ Returns([overallScore |-> OverallScore(scored.arg[1], scored.arg[2])])
    /\ UNCHANGED pipelineVars

NextScore ==
    \/ ScorePython
    \/ ScoreJavaScript
    \/ ScoreCpp
    \/ ScoreProject
    \/ ScoreRouter
    \/ ScoreReport

SpecScore == InitScore /\ [][NextScore]_vars

\* C1: every score field is an integer in [0,100]: the score of each
\* per-language result, style.score, memoryManagement.score, the project's
\* readmeQuality, structureScore and score, codeAnalysis.overallScore and the
\* report's overallScore.
C1_ScoresInRange ==
    scored.returned =>
        LET v == scored.value
            InRange(x) == x \in 0..100
        IN  CASE scored.call = "analyzePython" ->
                    InRange(v.score) /\ InRange(v.style.score)
              [] scored.call = "analyzeJavaScript" ->
                    InRange(v.score) /\ InRange(v.style.score)
              [] scored.call = "analyzeCpp" ->
                    /\ InRange(v.score)
                    /\ InRange(v.style.score)
                    /\ InRange(v.memoryManagement.score)
              [] scored.call = "analyzeProject" ->
                    /\ InRange(v.readmeQuality)
                    /\ InRange(v.structureScore)
                    /\ InRange(v.score)
              [] scored.call = "runAnalyzers" ->
                    /\ InRange(v.overallScore)
                    /\ \A i \in 1..Len(v.byLanguage) :
                        InRange(v.byLanguage[i].analysis.score)
              [] scored.call = "compileReport" -> InRange(v.overallScore)

\* a C++ result whose points before the clamp are below zero has score 0
C1_Witness ==
    /\ scored.returned
    /\ scored.call = "analyzeCpp"
    /\ scored.value.score = 0
    /\ scored.value.filesAnalyzed > 0
    /\ Len(scored.value.issues) > MaxIssues
    /\ scored.value.memoryManagement.score < 50

(***************************************************************************)
(* compileReport applied to inputs drawn from bounded sets: analyzeRepo    *)
(* from the call of compileReport on.                                      *)
(***************************************************************************)
\* the samples of the pipeline, and for JavaScript two more: complex functions
\* without issues, issues without complex functions
ReportSamples(analyzer) ==
    IF analyzer = "analyzeJavaScript"
    THEN JSSamples \cup {[TangledJS EXCEPT !.scan.issues = <<>>],
                         [TangledJS EXCEPT !.scan.closed = <<2>>]}
    ELSE Samples(analyzer)

\* what the analyzer of a selected language may do
EntryChoices(entry, files) ==
    {[lang |-> entry.lang, percentage |-> entry.percentage, threw |-> TRUE,
      analysis |-> Null]}
    \cup {[lang |-> entry.lang, percentage |-> entry.percentage, threw |-> FALSE,
           analysis |-> RunAnalyzer(ANALYZERS(entry.lang), files, sample)] :
            sample \in ReportSamples(ANALYZERS(entry.lang))}

\* the runs of runAnalyzers over a selection
RunsOf(selected, files) ==
    LET choices == UNION {EntryChoices(selected[k], files) : k \in 1..Len(selected)}
    IN  {run \in [1..Len(selected) -> choices] :
            \A k \in 1..Len(selected) : run[k].lang = selected[k].lang}

\* a README of a few words without sections
ShortReadme ==
    [present |-> TRUE, readable |-> TRUE, wordCount |-> 60, sections |-> {}]

ReportRoots ==
    {root \in ProjectRoots :
        /\ root.readme \in {NoReadme, ShortReadme, CompleteRoot.readme}
        /\ ~root.docker
        /\ root.packageManager
        /\ root.structure \in
              {[srcDir |-> FALSE, configFiles |-> 1, rootFiles |-> 31,
                meaningfulDirs |-> 0],
               [srcDir |-> TRUE, configFiles |-> 1, rootFiles |-> 0,
                meaningfulDirs |-> 4]}}

ReportSnapshots ==
    {files \in Snapshots :
        \A i \in 1..Len(files) :
            files[i].ext \in {".py", ".js", ".cpp"} /\ files[i].lines = 7}

\* the arguments of compileReport after the pipeline ran on one of the
\* snapshots with one of the root directories
DrawnReportInputs(snapshots, roots) ==
    UNION {{[repo |-> [files |-> files, root |-> root],
             stats |-> detectLanguages(files),
             metrics |-> analyzeProject(root),
             codeAnalysis |-> runAnalyzersFrom(run)] :
                root \in roots,
                run \in RunsOf(SelectLanguages(detectLanguages(files)), files)} :
           files \in snapshots}

\* compileReport as a function of the two scores it combines
GridReportInputs(pairs) ==
    {[repo |-> [files |-> <<>>, root |-> PlainRoot],
      stats |-> detectLanguages(<<>>),
      metrics |-> [analyzeProject(PlainRoot) EXCEPT !.score = pair[1]],
      codeAnalysis |-> [NoLanguages EXCEPT !.overallScore = pair[2]]] :
        pair \in pairs}

ReportInputs(snapshots, roots, pairs) ==
    DrawnReportInputs(snapshots, roots) \cup GridReportInputs(pairs)

InitReport ==
    /\ pc = "compile"
    /\ tempDir = TRUE
    /\ languagesToAnalyze = <<>>
    /\ cursor = 0
    /\ totalWeight = 0
    /\ weightedScore = 0
    /\ calls = <<>>
    /\ report = Null
    /\ outcome = "running"
    /\ scored = Null
    /\ \E in \in ReportInputs(ReportSnapshots, ReportRoots, ScorePairs) :
        /\ repo = in.repo
        /\ languageStats = in.stats
        /\ projectMetrics = in.metrics
        /\ results = in.codeAnalysis

NextReport ==
    \/ CompileReport
    \/ Cleanup

SpecReport == InitReport /\ [][NextReport]_vars

(***************************************************************************)
(* Properties of the report.                                               *)
(***************************************************************************)
\* C2: the grade of a report follows the threshold table with inclusive lower
\* bounds (90 A+, 85 A, 80 A-, 75 B+, 70 B, 65 B-, 60 C+, 55 C, 50 C-, 40 D,
\* otherwise F); it is one of the eleven grades; no lower score has a better
\* grade and no higher score a worse one; 90 gives A+, 85 A, 79 B+, 39 F.
C2_GradeTable ==
    (report # Null) =>
        LET table == <<<<90, "A+">>, <<85, "A">>, <<80, "A-">>, <<75, "B+">>,
                       <<70, "B">>, <<65, "B-">>, <<60, "C+">>, <<55, "C">>,
                       <<50, "C-">>, <<40, "D">>, <<0, "F">>>>
            \* the position of a grade in the table, 1 the best
            Position(grade) == CHOOSE k \in 1..11 : table[k][2] = grade
            \* the first row whose bound the score reaches
            Row(score) ==
                CHOOSE k \in 1..11 :
                    /\ score >= table[k][1]
                    /\ \A j \in 1..(k - 1) : score < table[j][1]
            score == report.overallScore
        IN  /\ \E k \in 1..11 : report.grade = table[k][2]
            /\ report.grade = table[Row(score)][2]
            /\ \A other \in 0..100 :
                /\ other <= score =>
                      Position(scoreToGrade(other)) >= Position(report.grade)
                /\ other >= score =>
                      Position(scoreToGrade(other)) <= Position(report.grade)
            /\ score = 90 => report.grade = "A+"
            /\ score = 85 => report.grade = "A"
            /\ score = 79 => report.grade = "B+"
            /\ score = 39 => report.grade = "F"

\* a report was graded at a score that is exactly a bound of the table
C2_Witness == report # Null /\ report.overallScore = 85 /\ report.grade = "A"

\* C3: the report's overallScore is (4 * projectScore + 6 * codeScore) / 10
\* rounded to the nearest integer, a half rounded up; its grade is scoreToGrade
\* of that overallScore; projectScore 90 and codeScore 74 give 80.
C3_OverallScore ==
    (report # Null) =>
        LET projectScore == report.projectMetrics.score
            codeScore == report.codeAnalysis.overallScore
            tenfold == 4 * projectScore + 6 * codeScore
        IN  /\ 10 * report.overallScore - 5 <= tenfold
            /\ tenfold < 10 * report.overallScore + 5
            /\ report.grade = scoreToGrade(report.overallScore)
            /\ (projectScore = 90 /\ codeScore = 74) => report.overallScore = 80

\* the example of C3 was compiled
C3_Witness ==
    /\ report # Null
    /\ report.projectMetrics.score = 90
    /\ report.codeAnalysis.overallScore = 74
    /\ report.overallScore = 80
    /\ report.grade = "A-"

\* C8: the strengths of a report have at least one entry; they are the single
\* generic entry exactly when no strength rule fires, and the generic entry
\* never stands next to another strength.
C8_Strengths ==
    (report # Null) =>
        LET m == report.projectMetrics
            code == report.codeAnalysis
            generic == "Repository analyzed successfully"
            ruleFires ==
                \/ m.readmeQuality >= 80
                \/ m.hasTests
                \/ m.hasCI
                \/ m.hasLicense
                \/ m.structureScore >= 80
                \/ code.overallScore >= 80
                \/ \E i \in 1..Len(code.byLanguage) :
                      code.byLanguage[i].analysis.score >= 85
        IN  /\ Len(report.strengths) >= 1
            /\ ~ruleFires <=> report.strengths = <<generic>>
            /\ (\E i \in 1..Len(report.strengths) : report.strengths[i] = generic)
                  => Len(report.strengths) = 1

\* a report without any strength signal, for a repository with analyzed code
C8_Witness ==
    /\ report # Null
    /\ report.strengths = <<"Repository analyzed successfully">>
    /\ Len(report.codeAnalysis.analyzedLanguages) >= 1

\* C9: the improvements of a report are the first min(5, n) of the n
\* candidates in the declared order: README, tests, license, CI, structure,
\* then for each language in byLanguage order its complexity entry followed
\* by its issue-count entry; there are at most five and they are not re-sorted.
C9_Improvements ==
    (report # Null) =>
        LET m == report.projectMetrics
            by == report.codeAnalysis.byLanguage
            High(a) == "complexity" \in DOMAIN a /\ a.complexity.averageX10 > 150
            Many(a) == "issues" \in DOMAIN a /\ Len(a.issues) > 5
            \* the candidate slots in declared order: <<applies, text>>
            slots ==
                << <<~m.hasReadme, "Add a README file">>,
                   <<m.hasReadme /\ m.readmeQuality < 50,
                     "Improve README documentation">>,
                   <<~m.hasTests, "Add unit tests">>,
                   <<~m.hasLicense, "Add a license file">>,
                   <<~m.hasCI, "Set up CI/CD pipeline">>,
                   <<m.structureScore < 50, "Improve project organization">> >>
                \o [k \in 1..(2 * Len(by)) |->
                      LET e == by[(k + 1) \div 2]
                      IN  IF k % 2 = 1
                          THEN <<High(e.analysis),
                                 "Reduce complexity in " \o e.lang \o " code">>
                          ELSE <<Many(e.analysis),
                                 "Address code quality issues in " \o e.lang>>]
            \* the number of candidates among the first k slots
            Before(k) == Cardinality({j \in 1..k : slots[j][1]})
            n == Before(Len(slots))
        IN  /\ Len(report.improvements) = Min(5, n)
            /\ \A k \in 1..Len(slots) :
                (slots[k][1] /\ Before(k) <= 5) =>
                    report.improvements[Before(k)] = slots[k][2]

\* five candidates come before the entries of a language, which are dropped
C9_Witness ==
    /\ report # Null
    /\ Len(report.improvements) = 5
    /\ report.improvements[5] = "Improve project organization"
    /\ \E i \in 1..Len(report.codeAnalysis.byLanguage) :
        /\ "issues" \in DOMAIN report.codeAnalysis.byLanguage[i].analysis
        /\ Len(report.codeAnalysis.byLanguage[i].analysis.issues) > 5

(***************************************************************************)
(* detectLanguages on its own: the snapshots hold files whose extension    *)
(* has no entry in EXTENSION_MAP, files whose read fails, upper-case       *)
(* extensions, and byte sizes that are not proportional to line counts.    *)
(***************************************************************************)
\* files in one snapshot of the detector
MaxDetectFiles == 3

\* the size in bytes of a file of an extension
BytesFor(ext) == IF ext \in {".py", ".PY"} THEN 900 ELSE 30

\* a file whose read fails keeps its content: lines is what a read would give
DetectFiles ==
    {[ext |-> e, lines |-> l, bytes |-> BytesFor(e), readable |-> r] :
        e \in {".py", ".PY", ".rb", ".txt"}, l \in {17, 23}, r \in BOOLEAN}

DetectSnapshots(n) == SeqsUpTo(DetectFiles, n)

InitDetect ==
    /\ pc = "detect"
    /\ repo \in [files : DetectSnapshots(MaxDetectFiles), root : {PlainRoot}]
    /\ tempDir = TRUE
    /\ languageStats = Null
    /\ projectMetrics = Null
    /\ languagesToAnalyze = <<>>
    /\ cursor = 0
    /\ totalWeight = 0
    /\ weightedScore = 0
    /\ results = Null
    /\ calls = <<>>
    /\ report = Null
    /\ outcome = "running"
    /\ scored = Null

NextDetect == DetectLanguages

SpecDetect == InitDetect /\ [][NextDetect]_vars

\* detectLanguages has returned
Detected == pc = "project" /\ languageStats # Null

\* the label of the i-th file of the snapshot
LabelOf(i) == EXTENSION_MAP(ToLowerCase(repo.files[i].ext))

\* the lines the files of a label hold that could be read
LinesOfLabel(label) ==
    SumSeq([i \in 1..Len(repo.files) |->
              IF LabelOf(i) = label /\ repo.files[i].readable
              THEN repo.files[i].lines ELSE 0])

\* the position in the walk of the first file of a label
FirstFileOf(label) ==
    CHOOSE i \in 1..Len(repo.files) :
        /\ LabelOf(i) = label
        /\ \A j \in 1..(i - 1) : LabelOf(j) # label

\* the labels of the snapshot's files
LabelsFound == {LabelOf(i) : i \in 1..Len(repo.files)} \ {Undefined}

\* the greatest number of readable lines any label of the snapshot holds
GreatestLines ==
    MaxSeq([i \in 1..Len(repo.files) |->
              IF LabelOf(i) = Undefined THEN 0 ELSE LinesOfLabel(LabelOf(i))])

\* the label with the greatest line count whose first file the walk reaches
\* first
FirstGreatest ==
    CHOOSE label \in LabelsFound :
        /\ LinesOfLabel(label) = GreatestLines
        /\ \A other \in LabelsFound :
            LinesOfLabel(other) = GreatestLines
                => FirstFileOf(label) <= FirstFileOf(other)

\* C11: detectLanguages reports as primary the language with the greatest
\* total line count, and among several languages that share the greatest
\* count the one whose first file the walk reached first.
C11_PrimaryIsFirstGreatest ==
    (Detected /\ LabelsFound # {}) => languageStats.primary = FirstGreatest

\* what the code does: a label is primary only with more than 0 lines
C11_PrimaryWhenLinesCounted ==
    Detected =>
        languageStats.primary =
            IF LabelsFound # {} /\ GreatestLines > 0 THEN FirstGreatest ELSE "null"

\* two labels share the greatest count and the second one met is not primary
C11_TieReached ==
    /\ Detected
    /\ \E a, b \in LabelsFound :
        /\ a # b
        /\ LinesOfLabel(a) = GreatestLines
        /\ LinesOfLabel(b) = GreatestLines
        /\ GreatestLines > 0
        /\ languageStats.primary = a

\* C12: each language's percentage is round(100 * lines / totalLines), from
\* line counts only, an integer in 0..100, and 0 when totalLines is 0.
C12_PercentageIsRounded ==
    Detected =>
        \A i \in 1..Len(languageStats.breakdown) :
            LET entry == languageStats.breakdown[i]
            IN  /\ entry.lines = LinesOfLabel(entry.lang)
                /\ entry.percentage \in 0..100
                /\ entry.percentage =
                     IF languageStats.totalLines = 0 THEN 0
                     ELSE MathRound(100 * entry.lines, languageStats.totalLines)

\* the percentage is within 1 of the rounded ratio, in 0..100, 0 without lines
C12_PercentageNearRounded ==
    Detected =>
        \A i \in 1..Len(languageStats.breakdown) :
            LET entry == languageStats.breakdown[i]
                exact == IF languageStats.totalLines = 0 THEN 0
                         ELSE MathRound(100 * entry.lines, languageStats.totalLines)
            IN  /\ entry.percentage \in 0..100
                /\ entry.percentage \in {exact, exact - 1}
                /\ languageStats.totalLines = 0 => entry.percentage = 0

\* the files of the snapshot that carry a label
FilesOfLabel(label) == {i \in 1..Len(repo.files) : LabelOf(i) = label}

\* the bytes the files of a label hold that could be read
BytesOfLabel(label) ==
    SumSeq([i \in 1..Len(repo.files) |->
              IF LabelOf(i) = label /\ repo.files[i].readable
              THEN repo.files[i].bytes ELSE 0])

\* C17: a file with an unmapped extension changes no language's counts; a
\* mapped file whose read fails adds 1 to its language's file count and 0 to
\* its lines and bytes; detectLanguages does not abort, every other file is
\* still counted.
C17_Classification ==
    Detected =>
        /\ {languageStats.breakdown[i].lang :
                i \in 1..Len(languageStats.breakdown)} = LabelsFound
        /\ Len(languageStats.breakdown) = Cardinality(LabelsFound)
        /\ \A i \in 1..Len(languageStats.breakdown) :
            LET entry == languageStats.breakdown[i]
            IN  /\ entry.files = Cardinality(FilesOfLabel(entry.lang))
                /\ entry.lines = LinesOfLabel(entry.lang)
                /\ entry.bytes = BytesOfLabel(entry.lang)
        /\ languageStats.totalFiles =
             Cardinality({i \in 1..Len(repo.files) : LabelOf(i) # Undefined})

\* an unmapped file, then a file whose read fails, then a readable file of the
\* same language: the language has 2 files and the lines of the readable one
C17_Witness ==
    /\ Detected
    /\ Len(repo.files) = 3
    /\ repo.files[1].ext = ".txt"
    /\ repo.files[2].ext = ".py" /\ ~repo.files[2].readable
    /\ repo.files[3].ext = ".PY" /\ repo.files[3].readable
    /\ languageStats.breakdown =
         <<[lang |-> "Python", files |-> 2, lines |-> repo.files[3].lines,
            bytes |-> 900, percentage |-> 100]>>

(***************************************************************************)
(* The categorization of function complexities on its own: each of the     *)
(* three analyzers categorizes the same complexities.                      *)
(***************************************************************************)
\* the greatest complexity of a categorized function
MaxComplexity == 22

\* functions categorized in one analysis
MaxCategorized == 2

BucketInputs(n, greatest) ==
    [call : {"analyzePython", "analyzeJavaScript", "analyzeCpp"},
     arg : SeqsUpTo(1..greatest, n)]

InitBuckets ==
    /\ pc = "categorize"
    /\ repo = Null
    /\ tempDir = FALSE
    /\ languageStats = Null
    /\ projectMetrics = Null
    /\ languagesToAnalyze = <<>>
    /\ cursor = 0
    /\ totalWeight = 0
    /\ weightedScore = 0
    /\ results = Null
    /\ calls = <<>>
    /\ report = Null
    /\ outcome = "running"
    /\ \E in \in BucketInputs(MaxCategorized, MaxComplexity) :
        scored = [call |-> in.call, arg |-> in.arg, returned |-> FALSE,
                  value |-> Null]

\* the loop of analyzeComplexity over the functions radon reports
CategorizePython ==
    /\ pc = "categorize" /\ scored.call = "analyzePython" /\ ~scored.returned
    /\ Returns(RadonLoop(PythonResult, scored.arg).complexity.distribution)
    /\ UNCHANGED pipelineVars

\* categorizeComplexity for each function analyzeFile closes
CategorizeJS ==
    /\ pc = "categorize" /\ scored.call = "analyzeJavaScript" /\ ~scored.returned
    /\ Returns(CategorizeAllJS(JSResult.complexity, scored.arg).distribution)
    /\ UNCHANGED pipelineVars

CategorizeCpp ==
    /\ pc = "categorize" /\ scored.call = "analyzeCpp" /\ ~scored.returned
    /\ Returns(CategorizeAll(CppResult.complexity, scored.arg).distribution)
    /\ UNCHANGED pipelineVars

NextBuckets == CategorizePython \/ CategorizeJS \/ CategorizeCpp

SpecBuckets == InitBuckets /\ [][NextBuckets]_vars

\* how many of the categorized complexities lie in low..high
CategorizedIn(low, high) ==
    Cardinality({i \in 1..Len(scored.arg) :
                    scored.arg[i] >= low /\ scored.arg[i] <= high})

\* C13: every categorized function increments exactly one of the four
\* buckets: at most 5 low, 6..10 medium, 11..20 high, above 20 veryHigh, in
\* the Python, the JavaScript/TypeScript and the C/C++ analyzer alike.
C13_Buckets ==
    (pc = "categorize" /\ scored.returned) =>
        /\ scored.value.low = CategorizedIn(0, 5)
        /\ scored.value.medium = CategorizedIn(6, 10)
        /\ scored.value.high = CategorizedIn(11, 20)
        /\ scored.value.veryHigh = CategorizedIn(21, MaxComplexity + 1)
        /\ scored.value.low + scored.value.medium + scored.value.high
             + scored.value.veryHigh = Len(scored.arg)

\* the Python loop has categorized a function of complexity 20 as high and
\* one of complexity 21 as veryHigh
C13_Witness ==
    /\ pc = "categorize" /\ scored.returned
    /\ scored.call = "analyzePython"
    /\ scored.arg = <<20, 21>>
    /\ scored.value = [low |-> 0, medium |-> 0, high |-> 1, veryHigh |-> 1]

(***************************************************************************)
(* analyzeRepo called twice on one snapshot.  Every variable above is a    *)
(* local of one call of analyzeRepo or of runAnalyzers: the modules keep   *)
(* no mutable state, and each call clones into a directory of its own      *)
(* (TEMP_DIR/uuid).  When the first call is over, scored keeps what it     *)
(* returned and what its analyzers met; the second call meets the same.    *)
(***************************************************************************)
\* files in a snapshot that is analyzed twice
MaxTwiceFiles == 2

TwiceRepos(n) == {r \in Repos : Len(r.files) <= n}

InitTwice ==
    /\ pc = "clone"
    /\ repo \in TwiceRepos(MaxTwiceFiles)
    /\ tempDir = FALSE
    /\ languageStats = Null
    /\ projectMetrics = Null
    /\ languagesToAnalyze = <<>>
    /\ cursor = 0
    /\ totalWeight = 0
    /\ weightedScore = 0
    /\ results = Null
    /\ calls = <<>>
    /\ report = Null
    /\ outcome = "running"
    /\ scored = Null

\* the second call of analyzeRepo, on the same snapshot
Restart ==
    /\ pc = "done"
    /\ scored = Null
    /\ scored' = [report |-> report, outcome |-> outcome, calls |-> calls]
    /\ pc' = "clone"
    /\ tempDir' = FALSE
    /\ languageStats' = Null
    /\ projectMetrics' = Null
    /\ languagesToAnalyze' = <<>>
    /\ cursor' = 0
    /\ totalWeight' = 0
    /\ weightedScore' = 0
    /\ results' = Null
    /\ calls' = <<>>
    /\ report' = Null
    /\ outcome' = "running"
    /\ UNCHANGED repo

\* the analyzers of the second call read the same files and get the same
\* outcomes from the external tools as those of the first
SameOutcomes ==
    scored # Null =>
        /\ Len(calls') <= Len(scored.calls)
        /\ calls' = SubSeq(scored.calls, 1, Len(calls'))

AnalyzeLanguageTwice == AnalyzeLanguage /\ SameOutcomes

NextTwice ==
    \/ Clone
    \/ DetectLanguages
    \/ AnalyzeProject
    \/ RunAnalyzersBegin
    \/ AnalyzeLanguageTwice
    \/ RunAnalyzersEnd
    \/ CompileReport
    \/ Cleanup
    \/ Restart

SpecTwice == InitTwice /\ [][NextTwice]_vars

\* both calls have returned a report and no analyzer's walk failed
BothReturned ==
    /\ scored # Null
    /\ scored.outcome = "returned"
    /\ outcome = "returned"
    /\ \A i \in 1..Len(calls) : ~calls[i].threw

PythonAnalyzed ==
    /\ pc = "score"
    /\ scored.call = "analyzePython"
    /\ scored.returned
    /\ scored.arg.pythonFiles > 0

\* the style tool did not run to its end: the command is missing, crashed or
\* timed out, and left no output
PylintUnavailable == scored.arg.pylint.rejected /\ scored.arg.pylint.stdout = ""

\* C15: when the style tool is unavailable, times out or returns output that
\* cannot be parsed, the style score is the lower default 70; it is the
\* higher default 85 only when the tool ran and reported zero issues.
C15_StyleDefaults ==
    PythonAnalyzed =>
        /\ PylintUnavailable => scored.value.style.score = 70
        /\ scored.arg.pylint.stdout = "garbage" => scored.value.style.score = 70
        /\ (~scored.arg.pylint.rejected /\ scored.arg.pylint.stdout = "[]")
              => scored.value.style.score = 85

\* what the code does: a tool that left no output scores as one that
\* reported zero issues
C15_UnavailableScoresAsClean ==
    PythonAnalyzed =>
        /\ PylintUnavailable => scored.value.style.score = 85
        /\ scored.arg.pylint.stdout = "garbage" => scored.value.style.score = 70
        /\ scored.arg.pylint.stdout = "[]" => scored.value.style.score = 85

(***************************************************************************)
(* analyzePython step by step.  scored holds the call: step is the awaited *)
(* call that comes next, result the result object so far, radonRuns and    *)
(* pylintRuns the commands started, thrown what left the call as an        *)
(* exception: "none", "walk" (walkDirectory rejects) or "tool" (a step     *)
(* that runs an external tool throws).  analyzePython has no try/catch of  *)
(* its own: what a step throws leaves analyzePython.                       *)
(***************************************************************************)
InitPython ==
    /\ pc = "python"
    /\ repo = Null
    /\ tempDir = FALSE
    /\ languageStats = Null
    /\ projectMetrics = Null
    /\ languagesToAnalyze = <<>>
    /\ cursor = 0
    /\ totalWeight = 0
    /\ weightedScore = 0
    /\ results = Null
    /\ calls = <<>>
    /\ report = Null
    /\ outcome = "running"
    /\ \E in \in PythonInputs :
        scored = [call |-> "analyzePython", arg |-> in, step |-> "walk",
                  result |-> PythonResult, radonRuns |-> 0, pylintRuns |-> 0,
                  thrown |-> "none", returned |-> FALSE, value |-> Null]

\* await walkDirectory(...); if (pythonFiles.length === 0) return result
PythonWalk ==
    /\ pc = "python" /\ scored.step = "walk"
    /\ \E walked \in BOOLEAN :
        scored' =
            IF ~walked
            THEN [scored EXCEPT !.step = "done", !.thrown = "walk"]
            ELSE IF scored.arg.pythonFiles = 0
            THEN [scored EXCEPT !.step = "done", !.returned = TRUE,
                                !.value = [PythonResult EXCEPT !.score = 0,
                                                               !.message = TRUE]]
            ELSE [scored EXCEPT !.step = "complexity",
                                !.result.filesAnalyzed = scored.arg.pythonFiles]
    /\ UNCHANGED pipelineVars

\* await analyzeComplexity(repoPath, result)
PythonComplexity ==
    /\ pc = "python" /\ scored.step = "complexity"
    /\ LET after == analyzeComplexity(scored.arg.radon, scored.result)
       IN  scored' =
             IF "thrown" \in DOMAIN after
             THEN [scored EXCEPT !.radonRuns = @ + 1, !.step = "done",
                                 !.thrown = "tool"]
             ELSE [scored EXCEPT !.radonRuns = @ + 1, !.step = "style",
                                 !.result = after]
    /\ UNCHANGED pipelineVars

\* await analyzeStyle(repoPath, pythonFiles, result)
PythonStyle ==
    /\ pc = "python" /\ scored.step = "style"
    /\ LET after == analyzeStyle(scored.arg.pylint, scored.result)
       IN  scored' =
             IF "thrown" \in DOMAIN after
             THEN [scored EXCEPT !.pylintRuns = @ + 1, !.step = "done",
                                 !.thrown = "tool"]
             ELSE [scored EXCEPT !.pylintRuns = @ + 1, !.step = "metrics",
                                 !.result = after]
    /\ UNCHANGED pipelineVars

\* await analyzeMetrics(...); result.score = ...; generateHighlights(result);
\* return result
PythonFinish ==
    /\ pc = "python" /\ scored.step = "metrics"
    /\ LET measured == analyzeMetrics(scored.arg.scan, scored.result)
           scoredResult == [measured EXCEPT !.score = calculatePythonScore(measured)]
           value == [scoredResult EXCEPT
                        !.highlights = generateHighlightsPython(scoredResult)]
       IN  scored' = [scored EXCEPT !.step = "done", !.returned = TRUE,
                                    !.result = value, !.value = value]
    /\ UNCHANGED pipelineVars

NextPython == PythonWalk \/ PythonComplexity \/ PythonStyle \/ PythonFinish

SpecPython == InitPython /\ [][NextPython]_vars

\* an external tool of this analysis was missing, crashed, timed out or gave
\* output that cannot be parsed
ToolFailed ==
    \/ scored.arg.radon.kind = "error"
    \/ scored.arg.radon.broken
    \/ scored.arg.pylint.rejected
    \/ scored.arg.pylint.stdout = "garbage"

\* C16: analyzePython never throws because an external tool is missing,
\* crashes, times out or returns unparsable output: it returns a result with
\* a score, and it starts each external tool at most once per analysis.
C16_ToolFailureAbsorbed ==
    pc = "python" =>
        /\ scored.thrown # "tool"
        /\ scored.radonRuns <= 1
        /\ scored.pylintRuns <= 1
        /\ (scored.step = "done" /\ scored.thrown = "none") =>
              /\ scored.returned
              /\ scored.value.score \in 0..100
              /\ scored.arg.pythonFiles > 0 =>
                    /\ scored.radonRuns = 1
                    /\ scored.pylintRuns = 1
                    /\ scored.value = analyzePython(scored.arg)

\* both tools failed, each was started once, and a scored result came back
C16_Witness ==
    /\ pc = "python"
    /\ scored.step = "done" /\ scored.returned
    /\ scored.arg.radon.kind = "error"
    /\ scored.arg.pylint.rejected /\ scored.arg.pylint.stdout = "garbage"
    /\ scored.radonRuns = 1 /\ scored.pylintRuns = 1
    /\ scored.value.score > 0
    /\ scored.value.complexity.error

\* an analyzer has returned the result of an analysis that found files
LanguageScored ==
    /\ pc = "score"
    /\ scored.returned
    /\ scored.call \in {"analyzePython", "analyzeJavaScript", "analyzeCpp"}
    /\ scored.value.filesAnalyzed > 0

\* the points a formula adds for a result, before its issue penalty
PositivePoints(call, result) ==
    CASE call = "analyzePython" -> PositivePointsPython(result)
      [] call = "analyzeJavaScript" -> PositivePointsJS(result)
      [] call = "analyzeCpp" -> PositivePointsCpp(result)

\* average complexities, in tenths, next to each other at and around every
\* threshold of the three formulas
AverageSteps ==
    {<<0, 50>>, <<50, 51>>, <<51, 100>>, <<100, 101>>, <<101, 150>>,
     <<150, 151>>, <<151, 200>>, <<200, 201>>, <<201, 250>>}

\* C18: in each per-language formula the positive components add up to at
\* most 100 before the issue penalty, whatever the metrics and flags, and
\* the complexity component never increases as the average complexity
\* increases.
C18_PositiveAtMost100 ==
    LanguageScored =>
        /\ PositivePoints(scored.call, scored.value) \in 0..100
        /\ \A step \in AverageSteps :
            PositivePoints(scored.call,
                [scored.value EXCEPT !.complexity.averageX10 = step[1]])
            >= PositivePoints(scored.call,
                [scored.value EXCEPT !.complexity.averageX10 = step[2]])

\* every positive component of the Python formula is at its maximum
C18_Witness ==
    /\ LanguageScored
    /\ scored.call = "analyzePython"
    /\ PositivePoints(scored.call, scored.value) = 100
    /\ scored.value.metrics.classes > 5

\* every positive component of the JavaScript formula is at its maximum
C18_WitnessJS ==
    /\ LanguageScored
    /\ scored.call = "analyzeJavaScript"
    /\ PositivePoints(scored.call, scored.value) = 100

\* the JavaScript or the C/C++ analyzer has returned the result of an analysis
\* that found files
PenaltyApplied ==
    /\ LanguageScored
    /\ scored.call \in {"analyzeJavaScript", "analyzeCpp"}

\* how many issues of the returned result have a severity
IssuesOf(severity) ==
    Cardinality({i \in 1..Len(scored.value.issues) :
                    scored.value.issues[i] = severity})

\* the penalty of the returned result
PenaltyOf ==
    IF scored.call = "analyzeCpp" THEN PenaltyCpp(scored.value)
    ELSE PenaltyJS(scored.value)

\* the score of the returned result after the penalty, before the last line
BeforeClamp == PositivePoints(scored.call, scored.value) - PenaltyOf

\* C19 as stated: the penalty is a weighted sum over issue severities capped
\* at 15 (C/C++) or 10 (JavaScript/TypeScript), and subtracting it never
\* drives the score below 0 before the final clamp.
C19_NeverBelowFloor ==
    PenaltyApplied =>
        /\ PenaltyOf =
             IF scored.call = "analyzeCpp"
             THEN Min(15, 5 * IssuesOf("high") + 2 * IssuesOf("medium"))
             ELSE Min(10, 3 * IssuesOf("high") + IssuesOf("medium"))
        /\ BeforeClamp >= 0

\* C19 amended: the penalty is that capped weighted sum; the score after the
\* subtraction may be below 0, and the final clamp is what returns 0 then.
C19_PenaltyCapped ==
    PenaltyApplied =>
        /\ PenaltyOf =
             IF scored.call = "analyzeCpp"
             THEN Min(15, 5 * IssuesOf("high") + 2 * IssuesOf("medium"))
             ELSE Min(10, 3 * IssuesOf("high") + IssuesOf("medium"))
        /\ PenaltyOf \in 0..(IF scored.call = "analyzeCpp" THEN 15 ELSE 10)
        /\ BeforeClamp >= -15
        /\ scored.value.score = Min(100, Max(0, BeforeClamp))
        /\ scored.call = "analyzeJavaScript" => BeforeClamp >= 0

\* the weighted sum of a C/C++ result exceeds the ceiling, the penalty is 15
\* and the score after the subtraction is below 0
C19_Witness ==
    /\ PenaltyApplied
    /\ scored.call = "analyzeCpp"
    /\ 2 * IssuesOf("medium") > 15
    /\ PenaltyOf = 15
    /\ BeforeClamp < 0
    /\ scored.value.score = 0

(***************************************************************************)
(* The line loop of analyzeFile in javascriptAnalyzer.js and               *)
(* cppAnalyzer.js, as far as it counts complexity.  A code line is what    *)
(* the loop's tests see of it:                                             *)
(*   keywords  occurrences of if, else, for, while, switch, case, catch    *)
(*   spaced    occurrences of &&, || or ?? written between spaces           *)
(*   ternary   the line holds  ? ... :  written between spaces              *)
(*   starts    the line matches one of the function patterns; so does      *)
(*             "if (x) {" in JavaScript (\w+\s*\([^)]*\)\s*{) and           *)
(*             "else if (x) {" in C/C++ (\w+[\s\*&]+\w+\s*\(...\)\s*{)      *)
(*   opens, closes   the braces on the line                                *)
(* scored holds the loop: at is the line that comes next, complexity is    *)
(* currentFunctionComplexity, closed the complexities categorized so far.  *)
(***************************************************************************)
\* lines of the function body in a scanned file
MaxBodyLines == 2

\* occurrences of a keyword on one line
MaxKeywords == 2

\* "function f(a, b) {" and "int f(int a, int b) {"
FunctionStart ==
    [keywords |-> 0, spaced |-> 0, ternary |-> FALSE, starts |-> TRUE,
     opens |-> 1, closes |-> 0]

BodyLines(most) ==
    [keywords : 0..most, spaced : 0..1, ternary : BOOLEAN, starts : BOOLEAN,
     opens : 0..1, closes : 0..1]

ScannedFiles(n, most) == {<<FunctionStart>> \o body : body \in SeqsUpTo(BodyLines(most), n)}

InitScan ==
    /\ pc = "scan"
    /\ repo = Null
    /\ tempDir = FALSE
    /\ languageStats = Null
    /\ projectMetrics = Null
    /\ languagesToAnalyze = <<>>
    /\ cursor = 0
    /\ totalWeight = 0
    /\ weightedScore = 0
    /\ results = Null
    /\ calls = <<>>
    /\ report = Null
    /\ outcome = "running"
    /\ \E call \in {"analyzeJavaScript", "analyzeCpp"},
          lines \in ScannedFiles(MaxBodyLines, MaxKeywords) :
        scored = [call |-> call, arg |-> lines, at |-> 1, inFunction |-> FALSE,
                  braceDepth |-> 0, complexity |-> 1, functions |-> 0,
                  closed |-> <<>>]

\* the end of the loop body: braces, and the function's end
TrackBraces(st, line, complexity) ==
    LET depth == st.braceDepth + line.opens - line.closes
    IN  IF depth = 0 /\ line.closes > 0
        THEN [st EXCEPT !.at = @ + 1, !.braceDepth = depth,
                        !.closed = Append(@, complexity),
                        !.inFunction = FALSE, !.complexity = 1]
        ELSE [st EXCEPT !.at = @ + 1, !.braceDepth = depth,
                        !.complexity = complexity]

\* one code line in javascriptAnalyzer.js analyzeFile
ScanLineJS ==
    /\ pc = "scan" /\ scored.call = "analyzeJavaScript"
    /\ scored.at <= Len(scored.arg)
    /\ LET line == scored.arg[scored.at]
           started == IF line.starts
                      THEN [scored EXCEPT !.functions = @ + 1,
                                          !.inFunction = TRUE, !.complexity = 1]
                      ELSE scored
           \* trimmed.match(/\b(if|else|...|\?\?|\|\||&&)\b/): one test per
           \* line, and \b keeps an operator between spaces from matching
           counted == started.complexity
                      + (IF line.keywords > 0 THEN 1 ELSE 0)
                      + (IF line.ternary THEN 1 ELSE 0)
       IN  scored' = IF started.inFunction
                     THEN TrackBraces(started, line, counted)
                     ELSE [started EXCEPT !.at = @ + 1]
    /\ UNCHANGED pipelineVars

\* one code line in cppAnalyzer.js analyzeFile
ScanLineCpp ==
    /\ pc = "scan" /\ scored.call = "analyzeCpp"
    /\ scored.at <= Len(scored.arg)
    /\ LET line == scored.arg[scored.at]
           started == IF line.starts
                      THEN [scored EXCEPT !.functions = @ + 1,
                                          !.inFunction = TRUE, !.complexity = 1]
                      ELSE scored
           \* trimmed.match(/\b(if|else|...|\?|&&|\|\|)\b/): one test per line;
           \* \b keeps ? and the operators between spaces from matching
           counted == started.complexity + (IF line.keywords > 0 THEN 1 ELSE 0)
       IN  scored' = IF started.inFunction
                     THEN TrackBraces(started, line, counted)
                     ELSE [started EXCEPT !.at = @ + 1]
    /\ UNCHANGED pipelineVars

NextScan == ScanLineJS \/ ScanLineCpp

SpecScan == InitScan /\ [][NextScan]_vars

\* the occurrences of branching, looping and short-circuit tokens on the line
\* that is scanned next
Occurrences ==
    LET line == scored.arg[scored.at]
    IN  line.keywords + line.spaced + (IF line.ternary THEN 1 ELSE 0)

\* the line scanned next is a branching line inside a function body
BranchingLineInBody ==
    /\ pc = "scan"
    /\ scored.at <= Len(scored.arg)
    /\ scored.inFunction
    /\ Occurrences > 0

\* C20: every occurrence of a branching, looping or short-circuit token on a
\* code line inside a function body increments the function's complexity
\* counter by 1: a line with k occurrences raises it by exactly k, and a
\* branching line never lowers or resets it.
C20_EveryOccurrenceCounts ==
    [][BranchingLineInBody =>
         IF scored'.closed # scored.closed
         THEN scored'.closed[Len(scored'.closed)] = scored.complexity + Occurrences
         ELSE scored'.complexity = scored.complexity + Occurrences]_vars

\* what the code does: a line raises the counter by at most 1 (2 with a
\* ternary in JavaScript) however many occurrences it holds, and a line that
\* matches a function pattern sets the counter back to 1 first
C20_OncePerLine ==
    [][BranchingLineInBody =>
         LET line == scored.arg[scored.at]
             base == IF line.starts THEN 1 ELSE scored.complexity
             counted == base + (IF line.keywords > 0 THEN 1 ELSE 0)
                        + (IF line.ternary /\ scored.call = "analyzeJavaScript"
                           THEN 1 ELSE 0)
         IN  IF scored'.closed # scored.closed
             THEN scored'.closed[Len(scored'.closed)] = counted
             ELSE scored'.complexity = counted]_vars

\* the loop has passed the last line of the file
EndOfFile == pc = "scan" /\ scored.at > Len(scored.arg)

\* C21: every recognized function start is categorized exactly once by the
\* end of the file: when the loop is over, as many complexities have been
\* categorized as function starts were recognized.
C21_EveryStartCategorized ==
    EndOfFile => Len(scored.closed) = scored.functions

\* the same for the files whose braces balance, line by line never closing
\* more than is open
BracesBalance ==
    /\ \A n \in 1..Len(scored.arg) :
        SumSeq([i \in 1..n |-> scored.arg[i].opens])
            >= SumSeq([i \in 1..n |-> scored.arg[i].closes])
    /\ SumSeq([i \in 1..Len(scored.arg) |-> scored.arg[i].opens])
         = SumSeq([i \in 1..Len(scored.arg) |-> scored.arg[i].closes])

C21_BalancedStartsCategorized ==
    (EndOfFile /\ BracesBalance) => Len(scored.closed) = scored.functions

\* what the code does, line by line: a function start sets the flag and the
\* counter; inside a function the depth follows the braces; the function is
\* closed exactly when the depth is 0 after a line with a close brace, and
\* then the flag and the counter are reset
C21_LineStep ==
    [][(pc = "scan" /\ scored.at <= Len(scored.arg)) =>
         LET line == scored.arg[scored.at]
             inside == scored.inFunction \/ line.starts
             depth == scored.braceDepth + line.opens - line.closes
             closes == inside /\ depth = 0 /\ line.closes > 0
         IN  /\ scored'.functions = scored.functions + (IF line.starts THEN 1 ELSE 0)
             /\ scored'.braceDepth = IF inside THEN depth ELSE scored.braceDepth
             /\ scored'.inFunction = (inside /\ ~closes)
             /\ Len(scored'.closed) = Len(scored.closed) + (IF closes THEN 1 ELSE 0)
             /\ closes => scored'.complexity = 1
             /\ (line.starts /\ ~closes) =>
                   scored'.complexity \in 1..(2 + (IF line.ternary THEN 1 ELSE 0))
             /\ Len(scored'.closed) <= scored'.functions]_vars

\* analyzeProject has returned its metrics
ProjectScored ==
    /\ pc = "score"
    /\ scored.call = "analyzeProject"
    /\ scored.returned

\* the flags of the metrics that count for the project score
PositiveSignals ==
    {"hasReadme", "hasLicense", "hasTests", "hasCI", "hasDocker",
     "hasPackageManager"}

\* C22: the project score is round(readmeQuality * 0.25) (only with a README)
\* + 10 licensed + 20 tests + 15 CI + 5 containerized + 10 package manifest
\* + round(structureScore * 0.15), within 0..100; hasDocs does not change it,
\* and setting one positive signal to true never lowers it.
C22_ProjectScore ==
    ProjectScored =>
        LET m == scored.value
            points(flag, n) == IF flag THEN n ELSE 0
        IN  /\ m.score =
                 points(m.hasReadme, (2 * 25 * m.readmeQuality + 100) \div 200)
                 + points(m.hasLicense, 10) + points(m.hasTests, 20)
                 + points(m.hasCI, 15) + points(m.hasDocker, 5)
                 + points(m.hasPackageManager, 10)
                 + (2 * 15 * m.structureScore + 100) \div 200
            /\ m.score \in 0..100
            /\ calculateProjectScore([m EXCEPT !.hasDocs = ~@]) = m.score
            /\ \A signal \in PositiveSignals :
                calculateProjectScore([m EXCEPT ![signal] = TRUE]) >= m.score

\* a project with a documentation directory and every signal but a README has
\* 60 points and the 15 of a full structure score
C22_Witness ==
    /\ ProjectScored
    /\ scored.value.hasDocs
    /\ ~scored.value.hasReadme
    /\ scored.value.structureScore = 100
    /\ scored.value.score = 75

\* analyzeCpp has returned the result of a scan of at least one file
CppScanned ==
    /\ pc = "score"
    /\ scored.call = "analyzeCpp"
    /\ scored.returned
    /\ scored.arg.cppFiles + scored.arg.headerFiles > 0

\* C23: the C/C++ complexity.average is
\* round((3*low + 7*medium + 15*high + 25*veryHigh) / number of functions),
\* computed from the buckets and not from the exact complexities, and 0 when
\* no function was found.
C23_BucketWeightedAverage ==
    CppScanned =>
        LET d == scored.value.complexity.distribution
            functions == scored.value.metrics.functions
            weighted == 3 * d.low + 7 * d.medium + 15 * d.high + 25 * d.veryHigh
        IN  /\ functions = scored.arg.scan.functions
            /\ d = CategorizeAll(CppResult.complexity,
                                 scored.arg.scan.closed).distribution
            /\ scored.value.complexity.averageX10 =
                 IF functions > 0
                 THEN 10 * ((2 * weighted + functions) \div (2 * functions))
                 ELSE 0

\* two functions of complexity 26 each give an average of 25, not 26
C23_Witness ==
    /\ CppScanned
    /\ scored.arg.scan.closed = <<26, 26>>
    /\ scored.value.metrics.functions = 2
    /\ scored.value.complexity.averageX10 = 250

\* a file without a function start leaves the average at 0
C23_WitnessNoFunction ==
    /\ CppScanned
    /\ scored.value.metrics.functions = 0
    /\ scored.value.complexity.averageX10 = 0

(***************************************************************************)
(* Unreadable files in the file list of analyzeJavaScript and analyzeCpp   *)
(*   a listed file = [readable, holds]; holds is what analyzeFile adds to  *)
(*   the result when fs.readFile succeeds.  When readFile throws, the      *)
(*   catch of analyzeFile leaves the result as it was.                     *)
(***************************************************************************)
MaxListed == 2

JSFileHolds ==
    {[codeLines |-> 0, commentLines |-> 0, functions |-> 0, arrowFunctions |-> 0,
      classes |-> 0, usesModules |-> FALSE, usesAsync |-> FALSE,
      tsFiles |-> FALSE, closed |-> <<>>, issues |-> <<>>],
     [codeLines |-> 10, commentLines |-> 1, functions |-> 1, arrowFunctions |-> 0,
      classes |-> 0, usesModules |-> FALSE, usesAsync |-> FALSE,
      tsFiles |-> FALSE, closed |-> <<2>>, issues |-> <<>>],
     [codeLines |-> 40, commentLines |-> 0, functions |-> 1, arrowFunctions |-> 30,
      classes |-> 1, usesModules |-> TRUE, usesAsync |-> TRUE,
      tsFiles |-> TRUE, closed |-> <<26>>, issues |-> <<"low">>]}

\* source files only: no header clears style.hasHeaderGuards
CppFileHolds ==
    {[codeLines |-> 0, commentLines |-> 0, functions |-> 0, classes |-> 0,
      hasHeaderGuards |-> TRUE, usesSTL |-> FALSE, usesSmartPointers |-> FALSE,
      usesCpp11Plus |-> FALSE, rawPointers |-> 0, smartPointers |-> 0,
      newDelete |-> 0, closed |-> <<>>, issues |-> <<>>],
     [codeLines |-> 10, commentLines |-> 1, functions |-> 1, classes |-> 0,
      hasHeaderGuards |-> TRUE, usesSTL |-> FALSE, usesSmartPointers |-> FALSE,
      usesCpp11Plus |-> FALSE, rawPointers |-> 0, smartPointers |-> 0,
      newDelete |-> 0, closed |-> <<3>>, issues |-> <<>>],
     [codeLines |-> 40, commentLines |-> 6, functions |-> 2, classes |-> 1,
      hasHeaderGuards |-> TRUE, usesSTL |-> TRUE, usesSmartPointers |-> TRUE,
      usesCpp11Plus |-> TRUE, rawPointers |-> 2, smartPointers |-> 2,
      newDelete |-> 1, closed |-> <<26, 8>>, issues |-> <<"medium">>]}

ListedFiles(holds, n) ==
    UNION {[1..k -> [readable : BOOLEAN, holds : holds]] : k \in 0..n}

ReadableFile(file) == file.readable

\* the listed files without the ones fs.readFile fails on
ReadableOnly(files) == SelectSeq(files, ReadableFile)

\* analyzeFile of javascriptAnalyzer.js on one more file of the list
AddFileJS(scan, file) ==
    IF ~file.readable
    THEN scan
    ELSE [codeLines |-> scan.codeLines + file.holds.codeLines,
          commentLines |-> scan.commentLines + file.holds.commentLines,
          functions |-> scan.functions + file.holds.functions,
          arrowFunctions |-> scan.arrowFunctions + file.holds.arrowFunctions,
          classes |-> scan.classes + file.holds.classes,
          usesModules |-> scan.usesModules \/ file.holds.usesModules,
          usesAsync |-> scan.usesAsync \/ file.holds.usesAsync,
          tsFiles |-> scan.tsFiles \/ file.holds.tsFiles,
          closed |-> scan.closed \o file.holds.closed,
          issues |-> scan.issues \o file.holds.issues]

\* analyzeFile of cppAnalyzer.js on one more file of the list
AddFileCpp(scan, file) ==
    IF ~file.readable
    THEN scan
    ELSE [codeLines |-> scan.codeLines + file.holds.codeLines,
          commentLines |-> scan.commentLines + file.holds.commentLines,
          functions |-> scan.functions + file.holds.functions,
          classes |-> scan.classes + file.holds.classes,
          hasHeaderGuards |-> scan.hasHeaderGuards /\ file.holds.hasHeaderGuards,
          usesSTL |-> scan.usesSTL \/ file.holds.usesSTL,
          usesSmartPointers |-> scan.usesSmartPointers
                                \/ file.holds.usesSmartPointers,
          usesCpp11Plus |-> scan.usesCpp11Plus \/ file.holds.usesCpp11Plus,
          rawPointers |-> scan.rawPointers + file.holds.rawPointers,
          smartPointers |-> scan.smartPointers + file.holds.smartPointers,
          newDelete |-> scan.newDelete + file.holds.newDelete,
          closed |-> scan.closed \o file.holds.closed,
          issues |-> scan.issues \o file.holds.issues]

RECURSIVE ScanListJS(_, _)
ScanListJS(scan, files) ==
    IF files = <<>> THEN scan
    ELSE ScanListJS(AddFileJS(scan, Head(files)), Tail(files))

RECURSIVE ScanListCpp(_, _)
ScanListCpp(scan, files) ==
    IF files = <<>> THEN scan
    ELSE ScanListCpp(AddFileCpp(scan, Head(files)), Tail(files))

\* analyzeJavaScript on a repository whose walk lists these files:
\* result.filesAnalyzed = jsFiles.length, then analyzeFile on each of them
analyzeListJS(files) ==
    LET empty == CHOOSE f \in JSFileHolds : f.codeLines = 0
    IN  analyzeJavaScript(
            [jsFiles |-> Len(files),
             config |-> [hasLinter |-> FALSE, hasFormatter |-> FALSE,
                         usesTypeScript |-> FALSE, framework |-> "null"],
             scan |-> ScanListJS(empty, files)])

\* analyzeCpp on a repository whose walk lists these source files
analyzeListCpp(files) ==
    LET empty == CHOOSE f \in CppFileHolds : f.codeLines = 0
    IN  analyzeCpp([cppFiles |-> Len(files), headerFiles |-> 0,
                    buildSystem |-> "null",
                    scan |-> ScanListCpp(empty, files)])

InitListed ==
    /\ pc = "listed"
    /\ repo = Null
    /\ tempDir = FALSE
    /\ languageStats = Null
    /\ projectMetrics = Null
    /\ languagesToAnalyze = <<>>
    /\ cursor = 0
    /\ totalWeight = 0
    /\ weightedScore = 0
    /\ results = Null
    /\ calls = <<>>
    /\ report = Null
    /\ outcome = "running"
    /\ \/ \E files \in ListedFiles(JSFileHolds, MaxListed) :
            scored = [call |-> "analyzeJavaScript", arg |-> files,
                      returned |-> FALSE, value |-> Null]
       \/ \E files \in ListedFiles(CppFileHolds, MaxListed) :
            scored = [call |-> "analyzeCpp", arg |-> files,
                      returned |-> FALSE, value |-> Null]

AnalyzeListedJS ==
    /\ pc = "listed"
    /\ scored.call = "analyzeJavaScript"
    /\ ~scored.returned
    /\ scored' = [scored EXCEPT !.returned = TRUE,
                                !.value = analyzeListJS(scored.arg)]
    /\ UNCHANGED pipelineVars

AnalyzeListedCpp ==
    /\ pc = "listed"
    /\ scored.call = "analyzeCpp"
    /\ ~scored.returned
    /\ scored' = [scored EXCEPT !.returned = TRUE,
                                !.value = analyzeListCpp(scored.arg)]
    /\ UNCHANGED pipelineVars

NextListed == AnalyzeListedJS \/ AnalyzeListedCpp

SpecListed == InitListed /\ [][NextListed]_vars

\* the scan of a list with an unreadable file has returned
ListedReturned ==
    /\ pc = "listed"
    /\ scored.returned
    /\ \E i \in 1..Len(scored.arg) : ~scored.arg[i].readable

\* the result of the same call on the list without the unreadable files
WithoutUnreadable ==
    IF scored.call = "analyzeJavaScript"
    THEN analyzeListJS(ReadableOnly(scored.arg))
    ELSE analyzeListCpp(ReadableOnly(scored.arg))

\* C24: an unreadable file of a JavaScript or C/C++ scan is skipped and not
\* counted: the returned result is the one the scan returns for the file list
\* without the unreadable file.
C24_UnreadableNotCounted ==
    ListedReturned => scored.value = WithoutUnreadable

\* what holds: the unreadable file adds nothing to metrics, patterns,
\* complexity and issues, but it is counted in filesAnalyzed
C24_UnreadableAddsNoContent ==
    ListedReturned =>
        /\ scored.value.metrics = WithoutUnreadable.metrics
        /\ scored.value.patterns = WithoutUnreadable.patterns
        /\ scored.value.complexity = WithoutUnreadable.complexity
        /\ scored.value.issues = WithoutUnreadable.issues
        /\ scored.value.filesAnalyzed = Len(scored.arg)

\* a file of 31 functions next to an unreadable file: 10 points for
\* "at most 20 functions per file" that the readable file alone does not get
C24_ScoreDiffers ==
    /\ ListedReturned
    /\ scored.call = "analyzeJavaScript"
    /\ Len(ReadableOnly(scored.arg)) = 1
    /\ scored.value.score = WithoutUnreadable.score + 10

(***************************************************************************)
(* requestWithRetry of the fetcher                                         *)
(*   scored = [call, attempt, responses, lastError, returned, thrown,      *)
(*             value]: attempt is the loop variable, responses what        *)
(*   httpsRequest gave so far, lastError the variable of that name         *)
(*   (Undefined until a catch assigns it).                                 *)
(***************************************************************************)
MAX_RETRIES == 3

\* what one httpsRequest settles with: a response, read as its status code
\* and whether the rate limit is used up (and resets within or after a
\* minute), or a rejection (socket error, request timeout)
HttpsOutcomes ==
    [kind : {"response"}, statusCode : {200, 404, 500}, remaining : {60},
     wait : {"short"}]
    \cup [kind : {"response"}, statusCode : {403}, remaining : {0, 60},
          wait : {"short", "long"}]
    \cup [kind : {"rejected"}, statusCode : {0}, remaining : {60},
          wait : {"short"}]

\* the body of the try block: "continue", "return" or the Error thrown
TryRequest(response) ==
    IF response.kind = "rejected"
    THEN [does |-> "throw", error |-> "Request timeout after 30000ms"]
    ELSE IF response.statusCode = 403 /\ response.remaining = 0
    THEN IF response.wait = "long"
         THEN [does |-> "throw", error |-> "GitHub API rate limit exceeded"]
         ELSE [does |-> "continue", error |-> ""]
    ELSE IF response.statusCode = 404
    THEN [does |-> "throw", error |-> "Repository not found or is private"]
    ELSE IF response.statusCode >= 400
    THEN [does |-> "throw", error |-> "GitHub API error"]
    ELSE [does |-> "return", error |-> ""]

InitRetry ==
    /\ pc = "retry"
    /\ repo = Null
    /\ tempDir = FALSE
    /\ languageStats = Null
    /\ projectMetrics = Null
    /\ languagesToAnalyze = <<>>
    /\ cursor = 0
    /\ totalWeight = 0
    /\ weightedScore = 0
    /\ results = Null
    /\ calls = <<>>
    /\ report = Null
    /\ outcome = "running"
    /\ scored = [call |-> "requestWithRetry", attempt |-> 0, responses |-> <<>>,
                 lastError |-> Undefined, returned |-> FALSE, thrown |-> FALSE,
                 value |-> Null]

\* one pass of the for loop: the request, and the try or the catch
RetryAttempt ==
    /\ pc = "retry"
    /\ ~scored.returned /\ ~scored.thrown
    /\ scored.attempt <= MAX_RETRIES
    /\ \E response \in HttpsOutcomes :
        LET try == TryRequest(response)
            requested == [scored EXCEPT !.responses = Append(@, response),
                                        !.attempt = @ + 1]
        IN  scored' =
                CASE try.does = "return" ->
                        [requested EXCEPT !.returned = TRUE, !.value = response]
                  [] try.does = "continue" -> requested
                  [] OTHER -> [requested EXCEPT !.lastError = try.error]
    /\ UNCHANGED pipelineVars

\* throw lastError, after the loop
RetryThrow ==
    /\ pc = "retry"
    /\ ~scored.returned /\ ~scored.thrown
    /\ scored.attempt > MAX_RETRIES
    /\ scored' = [scored EXCEPT !.thrown = TRUE, !.value = scored.lastError]
    /\ UNCHANGED pipelineVars

NextRetry == RetryAttempt \/ RetryThrow

SpecRetry == InitRetry /\ [][NextRetry]_vars

RateLimited(response) ==
    /\ response.kind = "response"
    /\ response.statusCode = 403
    /\ response.remaining = 0

\* C25: requestWithRetry makes at most MAX_RETRIES + 1 requests, returns only
\* a response with a status below 400, and whenever it does not return it
\* throws a defined Error describing the last failure, also when every attempt
\* was rate-limited.
C25_ThrowsDefinedError ==
    pc = "retry" =>
        /\ Len(scored.responses) <= MAX_RETRIES + 1
        /\ scored.returned =>
            (scored.value.kind = "response" /\ scored.value.statusCode < 400)
        /\ scored.thrown => scored.value # Undefined

\* what holds: the bound on the requests and the status of what is returned
C25_BoundedRequests ==
    pc = "retry" =>
        /\ Len(scored.responses) <= MAX_RETRIES + 1
        /\ scored.returned =>
            (scored.value.kind = "response" /\ scored.value.statusCode < 400)
        /\ (scored.thrown /\ scored.value = Undefined) =>
            \A i \in 1..Len(scored.responses) :
                RateLimited(scored.responses[i])

\* four rate-limited responses, each with a reset within the minute
C25_AllRateLimited ==
    /\ pc = "retry"
    /\ scored.thrown
    /\ Len(scored.responses) = MAX_RETRIES + 1
    /\ \A i \in 1..Len(scored.responses) : RateLimited(scored.responses[i])

\* analyzeComplexity has just returned with complexity.error set
ComplexityFailed ==
    /\ pc = "python"
    /\ scored.step = "style"
    /\ scored.radonRuns = 1
    /\ scored.result.complexity.error

\* C26: when the complexity analysis of analyzePython fails at any point (tool
\* missing, timeout, unparsable output, or parsable output with a malformed
\* per-file entry), the result is as if the tool had not run: distribution,
\* max, average and metrics.functions are 0 and issues is empty.
C26_FailureLeavesNoTrace ==
    ComplexityFailed =>
        /\ scored.result.complexity.distribution = NoDistribution
        /\ scored.result.complexity.max = 0
        /\ scored.result.complexity.averageX10 = 0
        /\ scored.result.metrics.functions = 0
        /\ scored.result.issues = <<>>

\* what holds: max, average and metrics.functions stay 0, and nothing at all
\* is changed when the command or JSON.parse failed
C26_SummaryStaysZero ==
    ComplexityFailed =>
        /\ scored.result.complexity.max = 0
        /\ scored.result.complexity.averageX10 = 0
        /\ scored.result.metrics.functions = 0
        /\ scored.arg.radon.kind = "error" =>
            /\ scored.result.complexity.distribution = NoDistribution
            /\ scored.result.issues = <<>>

\* a function of complexity 26 was counted and flagged before the malformed
\* entry of the next file ended the loop
C26_PartialCounts ==
    /\ ComplexityFailed
    /\ scored.arg.radon.broken
    /\ scored.result.complexity.distribution.veryHigh = 1
    /\ scored.result.issues = <<"high">>

\* the functions the returned result has categorized
CategorizedCount ==
    LET d == scored.value.complexity.distribution
    IN  d.low + d.medium + d.high + d.veryHigh

BucketWeight(call, complexity) ==
    IF complexity <= 5 THEN (IF call = "analyzeCpp" THEN 3 ELSE 2)
    ELSE IF complexity <= 10 THEN 7
    ELSE IF complexity <= 20 THEN 15
    ELSE 25

FailedCalls == {i \in 1..Len(calls) : calls[i].threw}

ReturnedCalls == {i \in 1..Len(calls) : ~calls[i].threw}

\* C28: a language whose analyzer failed is recorded in byLanguage with score
\* 50, is not added to analyzedLanguages and contributes neither weight nor
\* score to overallScore; analyzedLanguages is a subset of the keys of
\* byLanguage; when every selected analyzer fails, overallScore is 50.
C28_FailedLanguageHasNoWeight ==
    (RouterReturned /\ calls # <<>>) =>
        LET ScoreOf(l) ==
                (CHOOSE e \in Range(results.byLanguage) : e.lang = l).analysis.score
            weights == [i \in 1..Len(calls) |->
                          IF calls[i].threw THEN 0
                          ELSE languagesToAnalyze[i].percentage]
            products == [i \in 1..Len(calls) |->
                           weights[i] * ScoreOf(calls[i].lang)]
            den == SumSeq(weights)
            num == SumSeq(products)
        IN  /\ \A i \in FailedCalls :
                /\ ScoreOf(calls[i].lang) = 50
                /\ calls[i].lang \notin Range(results.analyzedLanguages)
            /\ totalWeight = den
            /\ weightedScore = num
            /\ results.overallScore =
                 IF den > 0 THEN (2 * num + den) \div (2 * den) ELSE 50
            /\ Range(results.analyzedLanguages)
                 \subseteq {e.lang : e \in Range(results.byLanguage)}
            /\ ReturnedCalls = {} => results.overallScore = 50

\* both selected analyzers failed
C28_Witness ==
    /\ RouterReturned
    /\ Len(calls) >= 2
    /\ ReturnedCalls = {}
    /\ results.overallScore = 50
    /\ results.analyzedLanguages = <<>>
    /\ Len(results.byLanguage) = Len(calls)

\* one analyzer failed next to one that returned a score other than 50
C28_WitnessMixed ==
    /\ RouterReturned
    /\ FailedCalls # {}
    /\ ReturnedCalls # {}
    /\ results.overallScore # 50

(***************************************************************************)
(* fetchRepository of the fetcher                                          *)
(*   scored = [call, files, next, phase, race, destDir, written]           *)
(*     files    the state of downloadFile for each file to download        *)
(*     next     the loop variable i of downloadFilesInBatches (from 1)     *)
(*     phase    where fetchPromise is: "tree", "batch", "awaitBatch",      *)
(*              "finish", "resolved", "rejected"                           *)
(*     race     where fetchRepository is: "pending" at the await of        *)
(*              Promise.race, "catching" in its catch block before fs.rm,  *)
(*              "resolved" or "rejected" once it has settled               *)
(*     destDir  the temporary directory exists                             *)
(*     written  the files downloadFile has written into it                 *)
(***************************************************************************)
MaxFetchFiles == 3

\* CONFIG.BATCH_SIZE, scaled to the number of files
BATCH_SIZE == 2

InitFetch ==
    /\ pc = "fetch"
    /\ repo = Null
    /\ tempDir = FALSE
    /\ languageStats = Null
    /\ projectMetrics = Null
    /\ languagesToAnalyze = <<>>
    /\ cursor = 0
    /\ totalWeight = 0
    /\ weightedScore = 0
    /\ results = Null
    /\ calls = <<>>
    /\ report = Null
    /\ outcome = "running"
    \* await fs.mkdir(destDir, { recursive: true }) is done
    /\ scored = [call |-> "fetchRepository", files |-> <<>>, next |-> 1,
                 phase |-> "tree", race |-> "pending", destDir |-> TRUE,
                 written |-> {}]

\* a promise of the race settles: only the first one is seen by the await
Settle(st, how) ==
    IF st.race = "pending" THEN [st EXCEPT !.race = how] ELSE st

\* fetchFileTree and filterFiles: the files to download, or an Error
\* (API error, or 'No analyzable files found in repository')
FetchTree ==
    /\ pc = "fetch"
    /\ scored.phase = "tree"
    /\ \/ \E n \in 1..MaxFetchFiles :
            scored' = [scored EXCEPT !.files = [i \in 1..n |-> "listed"],
                                     !.phase = "batch"]
       \/ scored' = Settle([scored EXCEPT !.phase = "rejected"], "catching")
    /\ UNCHANGED pipelineVars

\* batch.map(...): downloadFile is called for each file of the batch
StartBatch ==
    /\ pc = "fetch"
    /\ scored.phase = "batch"
    /\ scored' = [scored EXCEPT
                    !.files = [i \in 1..Len(@) |->
                                 IF i >= scored.next /\ i < scored.next + BATCH_SIZE
                                 THEN "requested" ELSE @[i]],
                    !.phase = "awaitBatch"]
    /\ UNCHANGED pipelineVars

\* requestWithRetry of one downloadFile settles: status 200, or another
\* status or an Error (return false)
DownloadResponse ==
    /\ pc = "fetch"
    /\ \E i \in 1..Len(scored.files), ok \in BOOLEAN :
        /\ scored.files[i] = "requested"
        /\ scored' = [scored EXCEPT
                        !.files[i] = IF ok THEN "status200" ELSE "failed"]
    /\ UNCHANGED pipelineVars

\* await fs.mkdir(dir, { recursive: true }) of one downloadFile
DownloadMkdir ==
    /\ pc = "fetch"
    /\ \E i \in 1..Len(scored.files) :
        /\ scored.files[i] = "status200"
        /\ scored' = [scored EXCEPT !.files[i] = "directory", !.destDir = TRUE]
    /\ UNCHANGED pipelineVars

\* await fs.writeFile(destPath, ...) of one downloadFile: it throws, and
\* downloadFile returns false, when the directory is gone again
DownloadWrite ==
    /\ pc = "fetch"
    /\ \E i \in 1..Len(scored.files) :
        /\ scored.files[i] = "directory"
        /\ scored' = IF scored.destDir
                     THEN [scored EXCEPT !.files[i] = "downloaded",
                                         !.written = @ \cup {i}]
                     ELSE [scored EXCEPT !.files[i] = "failed"]
    /\ UNCHANGED pipelineVars

\* await Promise.all(promises) of the batch resolves
BatchDone ==
    /\ pc = "fetch"
    /\ scored.phase = "awaitBatch"
    /\ \A i \in 1..Len(scored.files) :
        (i >= scored.next /\ i < scored.next + BATCH_SIZE)
            => scored.files[i] \in {"downloaded", "failed"}
    /\ scored' = [scored EXCEPT
                    !.next = @ + BATCH_SIZE,
                    !.phase = IF scored.next + BATCH_SIZE > Len(scored.files)
                              THEN "finish" ELSE "batch"]
    /\ UNCHANGED pipelineVars

\* fetchPromise resolves with the description of the download
FetchResolve ==
    /\ pc = "fetch"
    /\ scored.phase = "finish"
    /\ scored' = Settle([scored EXCEPT !.phase = "resolved"], "resolved")
    /\ UNCHANGED pipelineVars

\* the timer of timeoutPromise fires before fetchPromise has settled
TotalTimeout ==
    /\ pc = "fetch"
    /\ scored.race = "pending"
    /\ scored.phase \notin {"resolved", "rejected"}
    /\ scored' = [scored EXCEPT !.race = "timedOut"]
    /\ UNCHANGED pipelineVars

\* the catch block: fs.rm(destDir, { recursive: true, force: true }), throw
CleanUp ==
    /\ pc = "fetch"
    /\ scored.race \in {"catching", "timedOut"}
    /\ scored' = [scored EXCEPT !.race = "rejected", !.destDir = FALSE,
                                !.written = {}]
    /\ UNCHANGED pipelineVars

NextFetch ==
    \/ FetchTree
    \/ StartBatch
    \/ DownloadResponse
    \/ DownloadMkdir
    \/ DownloadWrite
    \/ BatchDone
    \/ FetchResolve
    \/ TotalTimeout
    \/ CleanUp

SpecFetch == InitFetch /\ [][NextFetch]_vars

FetchRejected == pc = "fetch" /\ scored.race = "rejected"

\* C29: once fetchRepository has rejected, after a fetch error or after the
\* total timeout, its temporary directory is removed and stays removed: no
\* download still in flight creates it again or writes a file into it.
C29_RemovedStaysRemoved ==
    FetchRejected => (~scored.destDir /\ scored.written = {})

\* what holds: after a rejection that the fetch itself caused nothing is in
\* flight, and the directory stays removed
C29_FetchErrorStaysRemoved ==
    (FetchRejected /\ scored.phase = "rejected")
        => (~scored.destDir /\ scored.written = {} /\ scored.files = <<>>)

\* a download that was in flight at the timeout has written its file
C29_WrittenAfterTimeout ==
    /\ FetchRejected
    /\ scored.destDir
    /\ scored.written # {}

\* the file patterns of the analyzers' own walks
AnalyzerPattern(analyzer) ==
    CASE analyzer = "analyzePython" -> {".py"}
      [] analyzer = "analyzeJavaScript" -> {".js", ".jsx", ".ts", ".tsx"}
      [] analyzer = "analyzeCpp" ->
            {".cpp", ".cc", ".cxx", ".c", ".h", ".hpp", ".hxx"}

\* the files of the clone an analyzer's walk collects, as positions
ScannedBy(analyzer) ==
    {k \in 1..Len(repo.files) : repo.files[k].ext \in AnalyzerPattern(analyzer)}

\* the files of the clone the classifier attributes to a label
AttributedTo(label) ==
    {k \in 1..Len(repo.files) : EXTENSION_MAP(repo.files[k].ext) = label}

\* the entry of a label in the breakdown
BreakdownOf(label) ==
    CHOOSE e \in Range(languageStats.breakdown) : e.lang = label

\* C30: the AnalysisResult under a selected label scans exactly the files the
\* classifier attributed to that label: filesAnalyzed is the label's file
\* count in the breakdown, at least 1, and two different selected labels never
\* receive results computed from the same set of files.
C30_LabelScansOwnFiles ==
    (RouterReturned /\ calls # <<>>) =>
        /\ \A i \in ReturnedCalls :
            LET result == (CHOOSE e \in Range(results.byLanguage) :
                              e.lang = calls[i].lang).analysis
            IN  /\ result.filesAnalyzed = BreakdownOf(calls[i].lang).files
                /\ result.filesAnalyzed >= 1
                /\ ScannedBy(calls[i].analyzer) = AttributedTo(calls[i].lang)
        /\ \A i, j \in 1..Len(calls) :
            i # j => ScannedBy(calls[i].analyzer) # ScannedBy(calls[j].analyzer)

\* what holds: the files attributed to a selected label are among the files
\* its analyzer scans, and the result counts the files of the analyzer's walk
C30_LabelFilesAmongScanned ==
    (RouterReturned /\ calls # <<>>) =>
        \A i \in ReturnedCalls :
            LET result == (CHOOSE e \in Range(results.byLanguage) :
                              e.lang = calls[i].lang).analysis
            IN  /\ AttributedTo(calls[i].lang) \subseteq ScannedBy(calls[i].analyzer)
                /\ result.filesAnalyzed = Cardinality(ScannedBy(calls[i].analyzer))
                /\ result.filesAnalyzed >= BreakdownOf(calls[i].lang).files
                /\ result.filesAnalyzed >= 1

\* JavaScript and TypeScript were both selected, and both results count the
\* .js file and the .ts file
C30_SameFilesTwice ==
    /\ RouterReturned
    /\ \E i, j \in ReturnedCalls :
        /\ calls[i].lang = "JavaScript"
        /\ calls[j].lang = "TypeScript"
        /\ results.byLanguage[i].analysis.filesAnalyzed = 2
        /\ results.byLanguage[j].analysis.filesAnalyzed = 2
        /\ BreakdownOf("JavaScript").files = 1
        /\ BreakdownOf("TypeScript").files = 1

====
